---- MODULE Spec2Model ----
(***************************************************************************)
(* Model of the assumable-mortgage scraper: the file cache and its key     *)
(* derivation (utils/cache.py), the listing adapter                        *)
(* (clients/assumable.py), the school adapter (clients/greatschools.py),   *)
(* the run driver (cli.py) and the map builder (services/map_builder.py).  *)
(*                                                                         *)
(* Python values are tagged records [k, v]: k is the Python type, v the    *)
(* payload.  A dict is the sequence of its <<field, value>> pairs in       *)
(* insertion order, as Python keeps it.  A float is held in tenths         *)
(* (407 is 40.7), so that repr(float) can be computed.  A file holds the   *)
(* text json.dumps wrote, as its sequence of tokens.                       *)
(*                                                                         *)
(* The specifications share the variables:                                 *)
(*   SpecKey      the key derivation applied to request descriptors;       *)
(*   SpecListing  fetch_listing_page called in any order on one cache;     *)
(*   SpecSchools  fetch_schools called in any order on one cache;          *)
(*   Spec         runs of cli.main on one cache directory;                 *)
(*   SpecFaults   the adapters and the cache on a disk that may fail;      *)
(*   SpecCache    read_json and write_json called in any order;            *)
(*   SpecNormalizer  the normalizer of the map builder applied to records; *)
(*   SpecRace     two runs in one adapter call for the same key;           *)
(*   SpecCredentials  the adapters called under differing credentials.     *)
(* FairSpecSchools is SpecSchools with the loop of fetch_schools fair.     *)
(***************************************************************************)
EXTENDS Integers, Sequences, FiniteSets, TLC

VARIABLES
  objA, objB,     \* SpecKey: two request descriptors
  keyA, keyB,     \* SpecKey: the keys make_key returned for them
  cache,          \* the .cache directory: path -> file text
  calls,          \* the last completed adapter calls, the older first
                  \* (SpecRace: the calls of the two runs)
  fs,             \* the fetch_schools call in progress (its locals)
  run             \* Spec: the locals of cli.main

keyVars == <<objA, objB, keyA, keyB>>
vars == <<objA, objB, keyA, keyB, cache, calls, fs, run>>

(***************************************************************************)
(* Python values                                                           *)
(***************************************************************************)
PyInt(n) == [k |-> "int", v |-> n]
PyStr(s) == [k |-> "str", v |-> s]
PyFloat(tenths) == [k |-> "float", v |-> tenths]
PyList(items) == [k |-> "list", v |-> items]
PyDict(pairs) == [k |-> "dict", v |-> pairs]
PyNone == [k |-> "none", v |-> 0]
PyBool(b) == [k |-> "bool", v |-> b]

\* d.get(name, default) on a dict value.
DictGet(d, name, default) ==
  IF \E i \in 1..Len(d.v) : d.v[i][1] = name
  THEN d.v[CHOOSE i \in 1..Len(d.v) : d.v[i][1] = name][2]
  ELSE default

\* bool(value): None, 0, 0.0, "", [] and {} are falsy.
Truthy(x) ==
  CASE x.k = "none" -> FALSE
    [] x.k = "int" -> x.v # 0
    [] x.k = "float" -> x.v # 0
    [] x.k = "str" -> x.v # ""
    [] x.k = "list" -> Len(x.v) > 0
    [] x.k = "dict" -> Len(x.v) > 0
    [] x.k = "bool" -> x.v

(***************************************************************************)
(* json.dumps                                                              *)
(***************************************************************************)
\* Every field name of the model in code point order: Python's order of
\* str, which sort_keys=True sorts by.
SortedFieldNames ==
  <<"LocationGeoId", "SelectedView", "_token", "ajax", "countsOnly", "data",
    "distance", "extras", "geopicker_type", "lat", "level_code", "limit",
    "location", "locationType", "lon", "page", "params", "request",
    "response", "search_mode", "sort", "state", "url", "viewport", "zoom">>

FieldRankOf ==
  [name \in {SortedFieldNames[i] : i \in 1..Len(SortedFieldNames)} |->
     CHOOSE i \in 1..Len(SortedFieldNames) : SortedFieldNames[i] = name]

FieldRank(name) == FieldRankOf[name]

RECURSIVE InsertPair(_, _)
InsertPair(pair, sorted) ==
  IF sorted = <<>> THEN <<pair>>
  ELSE IF FieldRank(pair[1]) < FieldRank(Head(sorted)[1])
       THEN <<pair>> \o sorted
       ELSE <<Head(sorted)>> \o InsertPair(pair, Tail(sorted))

RECURSIVE SortPairs(_)
SortPairs(pairs) ==
  IF pairs = <<>> THEN <<>>
  ELSE InsertPair(Head(pairs), SortPairs(Tail(pairs)))

\* A float written without its fraction.
FloatReprTruncated(tenths) ==
  (IF tenths < 0 THEN "-" ELSE "")
    \o ToString((IF tenths < 0 THEN -tenths ELSE tenths) \div 10)

\* repr(float), which json.dumps writes for a float.
FloatRepr(tenths) ==
  LET a == IF tenths < 0 THEN -tenths ELSE tenths
  IN (IF tenths < 0 THEN "-" ELSE "") \o ToString(a \div 10) \o "."
       \o ToString(a % 10)

\* A str between quotes (the strings of the model hold no character that
\* json.dumps escapes).
JsonString(s) == "\"" \o s \o "\""

\* json.dumps(value, sort_keys=sort), with the default separators.
RECURSIVE JsonDumps(_, _)
JsonDumps(x, sort) ==
  LET RECURSIVE Items(_, _)
      Items(s, i) ==
        IF i > Len(s) THEN ""
        ELSE (IF i > 1 THEN ", " ELSE "") \o JsonDumps(s[i], sort)
               \o Items(s, i + 1)
      RECURSIVE Pairs(_, _)
      Pairs(s, i) ==
        IF i > Len(s) THEN ""
        ELSE (IF i > 1 THEN ", " ELSE "") \o JsonString(s[i][1]) \o ": "
               \o JsonDumps(s[i][2], sort) \o Pairs(s, i + 1)
  IN CASE x.k = "int" -> ToString(x.v)
       [] x.k = "float" -> FloatRepr(x.v)
       [] x.k = "str" -> JsonString(x.v)
       [] x.k = "none" -> "null"
       [] x.k = "list" -> "[" \o Items(x.v, 1) \o "]"
       [] x.k = "dict" ->
            "{" \o Pairs(IF sort THEN SortPairs(x.v) ELSE x.v, 1) \o "}"

(***************************************************************************)
(* hashlib.md5: the digests of the payloads the model can build, computed  *)
(* with hashlib and listed in ascending order of digest.                   *)
(***************************************************************************)
Md5Table ==
  <<
    <<"{\"lat\": 1, \"state\": 10}",
      "01827768e5cbbb9d18c5d2a41df31161">>,
    <<"{\"lat\": \"1\", \"page\": 1, \"state\": 1}",
      "048e9e32cc9245ae28274e6e8c24d22e">>,
    <<"{\"lat\": \"1\", \"state\": 10}",
      "05ed33561c56af54202d9c869468f5a9">>,
    <<"{\"lat\": 10, \"page\": \"1\", \"state\": 10}",
      "072047153ecd002c339c80b5b29a3f17">>,
    <<"{\"lat\": 1.0, \"page\": 10, \"state\": 1}",
      "0bc40c1d02d622e0034588c43d3e4774">>,
    <<"{\"lat\": 1.0, \"page\": 10}",
      "0d56d0bdac8ba2d52533e8ffce59831e">>,
    <<"{\"lat\": 1.0, \"state\": \"1\"}",
      "12f897a4d1ab67effc2130ce1e23ef68">>,
    <<"{\"params\": {\"countsOnly\": \"false\", \"distance\": 5, \"extras\": \"students_per_teacher,review_summary,saved_schools\", \"lat\": 40.7, \"level_code\": \"e,e\", \"limit\": 2000, \"locationType\": \"state\", \"lon\": -74.0, \"sort\": \"rating\", \"state\": \"NJ\", \"url\": \"/gsr/api/schools\"}, \"url\": \"https://www.greatschools.org/gsr/api/schools\"}",
      "18175a70237991928846e0ec999e597e">>,
    <<"{\"countsOnly\": \"false\", \"distance\": 5, \"extras\": \"students_per_teacher,review_summary,saved_schools\", \"lat\": 40.8, \"level_code\": \"e,e\", \"limit\": 2000, \"locationType\": \"state\", \"lon\": -74.0, \"sort\": \"rating\", \"state\": \"NJ\", \"url\": \"/gsr/api/schools\"}",
      "18591b077ec62b9e701d2150e69ef46f">>,
    <<"{\"lat\": \"1\", \"page\": \"1\", \"state\": 1}",
      "1eb608bc72b62c638abb2fe648067cc3">>,
    <<"{\"lat\": 10, \"page\": 1, \"state\": \"1\"}",
      "20b5ac38b1868115f93334e5448f5aa9">>,
    <<"{\"countsOnly\": \"false\", \"distance\": 18, \"extras\": \"students_per_teacher,review_summary,saved_schools\", \"lat\": 40.7, \"level_code\": \"e,e\", \"limit\": 2000, \"locationType\": \"state\", \"lon\": -74.0, \"sort\": \"rating\", \"state\": \"NY\", \"url\": \"/gsr/api/schools\"}",
      "219c87c26fd12043f0ec6ed1c82f6eef">>,
    <<"{\"lat\": \"1\", \"page\": 10, \"state\": 1}",
      "2287abd866ff8cf1310a79fdd9ca29a9">>,
    <<"{\"lat\": 10}",
      "252e7b302789359c960f6451b2c1f4cd">>,
    <<"{\"params\": {\"countsOnly\": \"false\", \"distance\": 5, \"extras\": \"students_per_teacher,review_summary,saved_schools\", \"lat\": 40.8, \"level_code\": \"e,e\", \"limit\": 2000, \"locationType\": \"state\", \"lon\": -73.9, \"sort\": \"rating\", \"state\": \"NY\", \"url\": \"/gsr/api/schools\"}, \"url\": \"https://www.greatschools.org/gsr/api/schools\"}",
      "26154b2fe07cde0e1f8c14d07546276a">>,
    <<"{\"lat\": 1.0, \"page\": 1, \"state\": 10}",
      "263d8336c601b369e4d84d5991db5e8a">>,
    <<"{\"LocationGeoId\": 3269, \"SelectedView\": \"map_view\", \"_token\": \"tokB\", \"ajax\": 1, \"geopicker_type\": \"viewport\", \"location\": \"New York\", \"page\": 1, \"search_mode\": \"location\", \"viewport\": \"-76.8612404491507,37.73641064455742,-72.41452414055695,43.07531462025779\", \"zoom\": 1}",
      "267e0437e43ebd8836d573c8198da89c">>,
    <<"{\"countsOnly\": \"false\", \"distance\": 5, \"extras\": \"students_per_teacher,review_summary,saved_schools\", \"lat\": 40.7, \"level_code\": \"e,e\", \"limit\": 2000, \"locationType\": \"state\", \"lon\": -73.9, \"sort\": \"rating\", \"state\": \"NY\", \"url\": \"/gsr/api/schools\"}",
      "26b6b400fd0f1e14bbb47965793ce1d9">>,
    <<"{\"countsOnly\": \"false\", \"distance\": 18, \"extras\": \"students_per_teacher,review_summary,saved_schools\", \"lat\": 40.8, \"level_code\": \"e,e\", \"limit\": 2000, \"locationType\": \"state\", \"lon\": -73.9, \"sort\": \"rating\", \"state\": \"NY\", \"url\": \"/gsr/api/schools\"}",
      "290cbae2b049fcdb96bfed1bbca388d6">>,
    <<"{\"lat\": 1.0, \"state\": 1}",
      "2912a934d672914366eb4b7badb8c12c">>,
    <<"{\"countsOnly\": \"false\", \"distance\": 5, \"extras\": \"students_per_teacher,review_summary,saved_schools\", \"lat\": 40.8, \"level_code\": \"e,e\", \"limit\": 2000, \"locationType\": \"state\", \"lon\": -73.9, \"sort\": \"rating\", \"state\": \"NY\", \"url\": \"/gsr/api/schools\"}",
      "29a7096a13c8a8bc9a2f27fa4ac82f3e">>,
    <<"{\"lat\": 1.0, \"page\": 10, \"state\": \"1\"}",
      "2a42416124688a2b21dbd6252cc511bb">>,
    <<"{\"lat\": 1.0, \"page\": \"1\", \"state\": 1}",
      "2b502df44d9a3c5f720be35ed4f07cfc">>,
    <<"{\"lat\": 1, \"page\": 10, \"state\": \"1\"}",
      "2e92632e8c25cb4584f9e9af0d65fa65">>,
    <<"{\"lat\": 1, \"page\": \"1\", \"state\": 1}",
      "2eb71a5e48bb2b411eacdae2050898df">>,
    <<"{\"lat\": 10, \"page\": 1.0, \"state\": 10}",
      "2f0316b1027b02fbfe98ff31112152de">>,
    <<"{\"lat\": 10, \"state\": \"1\"}",
      "2feb7fc522506f5b8939989ef8b59231">>,
    <<"{\"countsOnly\": \"false\", \"distance\": 18, \"extras\": \"students_per_teacher,review_summary,saved_schools\", \"lat\": 40.8, \"level_code\": \"e,e\", \"limit\": 2000, \"locationType\": \"state\", \"lon\": -73.9, \"sort\": \"rating\", \"state\": \"NJ\", \"url\": \"/gsr/api/schools\"}",
      "302436b8f915b8f8e47a352818c755a2">>,
    <<"{\"lat\": 1, \"page\": 10, \"state\": 1}",
      "308d1dfc8349c30f351dfa88c6081cf3">>,
    <<"{\"params\": {\"countsOnly\": \"false\", \"distance\": 5, \"extras\": \"students_per_teacher,review_summary,saved_schools\", \"lat\": 40.8, \"level_code\": \"e,e\", \"limit\": 2000, \"locationType\": \"state\", \"lon\": -74.0, \"sort\": \"rating\", \"state\": \"NY\", \"url\": \"/gsr/api/schools\"}, \"url\": \"https://www.greatschools.org/gsr/api/schools\"}",
      "30fbd2df5d74390af2ead6c8186d9e4a">>,
    <<"{\"state\": \"1\"}",
      "31a92c79e561b1b897f73e166e3f9c6e">>,
    <<"{\"lat\": 10, \"state\": 1}",
      "31aa3a2c86fc21a6141ad83db2e3116e">>,
    <<"{\"lat\": \"1\", \"page\": 1.0, \"state\": 1.0}",
      "320366ca6735c9d4500538025db14e0e">>,
    <<"{\"page\": 1.0}",
      "371d869bb01f13f33bf8fe1c0147f7c6">>,
    <<"{\"lat\": 10, \"page\": 10, \"state\": 10}",
      "3b4c8ba95626e054404a3b1ddee6a9d0">>,
    <<"\"https://www.greatschools.org/gsr/api/schools?page=4\"",
      "3b9cdd990838a0dd4d1b818575ed46c3">>,
    <<"{\"lat\": 1, \"page\": 1.0, \"state\": 1}",
      "3c1da982c7c5adc8ee07a1890e20880a">>,
    <<"{\"params\": {\"countsOnly\": \"false\", \"distance\": 18, \"extras\": \"students_per_teacher,review_summary,saved_schools\", \"lat\": 40.7, \"level_code\": \"e,e\", \"limit\": 2000, \"locationType\": \"state\", \"lon\": -74.0, \"sort\": \"rating\", \"state\": \"NJ\", \"url\": \"/gsr/api/schools\"}, \"url\": \"https://www.greatschools.org/gsr/api/schools\"}",
      "3d7919e022664ecf117574e8a489b24a">>,
    <<"{\"lat\": 1, \"page\": 1.0}",
      "425ba1d07fc5b3481e3dd9c5c7a1a65a">>,
    <<"{\"lat\": 10, \"page\": \"1\", \"state\": 1}",
      "42e58a36584181be019add3890ca8dd0">>,
    <<"{\"page\": 10, \"state\": 1.0}",
      "4307dc5f068f55fb944fe685f5c43293">>,
    <<"{\"LocationGeoId\": 3269, \"SelectedView\": \"map_view\", \"_token\": \"tokB\", \"ajax\": 1, \"geopicker_type\": \"viewport\", \"location\": \"New York\", \"page\": 3, \"search_mode\": \"location\", \"viewport\": \"-76.8612404491507,37.73641064455742,-72.41452414055695,43.07531462025779\", \"zoom\": 1}",
      "436afd8bbd78cf533e013c13b67725a0">>,
    <<"{\"LocationGeoId\": 3269, \"SelectedView\": \"map_view\", \"_token\": \"tokB\", \"ajax\": 1, \"geopicker_type\": \"viewport\", \"location\": \"New York\", \"page\": 5, \"search_mode\": \"location\", \"viewport\": \"-76.8612404491507,37.73641064455742,-72.41452414055695,43.07531462025779\", \"zoom\": 1}",
      "453f70eb629ff4d6eb5b0343c81ae147">>,
    <<"{\"lat\": 10, \"page\": \"1\", \"state\": 1.0}",
      "45988188c9f52c9047bf12065327ca15">>,
    <<"{\"lat\": 1, \"page\": 1, \"state\": \"1\"}",
      "49c3cad9396cba9fe6aaf3206614e354">>,
    <<"{\"lat\": 10, \"page\": 10, \"state\": \"1\"}",
      "4bbc1d99de41b69ba5cef5e4e88efff5">>,
    <<"{\"state\": 1.0}",
      "4bd0dfd0b67eda85616061885db87240">>,
    <<"{\"lat\": \"1\", \"page\": 1.0, \"state\": \"1\"}",
      "4fdeb9ccacc56f03f882a40895d580dd">>,
    <<"{\"params\": {\"countsOnly\": \"false\", \"distance\": 18, \"extras\": \"students_per_teacher,review_summary,saved_schools\", \"lat\": 40.7, \"level_code\": \"e,e\", \"limit\": 2000, \"locationType\": \"state\", \"lon\": -73.9, \"sort\": \"rating\", \"state\": \"NY\", \"url\": \"/gsr/api/schools\"}, \"url\": \"https://www.greatschools.org/gsr/api/schools\"}",
      "519cb1a27d04b1109b9708883c23f1db">>,
    <<"{\"lat\": \"1\", \"page\": 10}",
      "54161366713b53e44c1572cf75cdf386">>,
    <<"{\"params\": {\"countsOnly\": \"false\", \"distance\": 18, \"extras\": \"students_per_teacher,review_summary,saved_schools\", \"lat\": 40.8, \"level_code\": \"e,e\", \"limit\": 2000, \"locationType\": \"state\", \"lon\": -73.9, \"sort\": \"rating\", \"state\": \"NJ\", \"url\": \"/gsr/api/schools\"}, \"url\": \"https://www.greatschools.org/gsr/api/schools\"}",
      "5435b557f5422f60dffeafa3ea5f3d52">>,
    <<"{\"lat\": 10, \"page\": \"1\", \"state\": \"1\"}",
      "561621bb15d2e99cbc5cb2e674920cc9">>,
    <<"{\"lat\": \"1\", \"page\": 1.0, \"state\": 10}",
      "57d738fba7a90426cfd09d59445ebef3">>,
    <<"{\"LocationGeoId\": 3269, \"SelectedView\": \"map_view\", \"_token\": \"tokA\", \"ajax\": 1, \"geopicker_type\": \"viewport\", \"location\": \"New York\", \"page\": 3, \"search_mode\": \"location\", \"viewport\": \"-76.8612404491507,37.73641064455742,-72.41452414055695,43.07531462025779\", \"zoom\": 1}",
      "5a1db81dfa7f6408eb36b4942dc2612f">>,
    <<"{\"countsOnly\": \"false\", \"distance\": 18, \"extras\": \"students_per_teacher,review_summary,saved_schools\", \"lat\": 40.8, \"level_code\": \"e,e\", \"limit\": 2000, \"locationType\": \"state\", \"lon\": -74.0, \"sort\": \"rating\", \"state\": \"NJ\", \"url\": \"/gsr/api/schools\"}",
      "5ac85e747182416928cf56e312cd5bdc">>,
    <<"{\"lat\": 1, \"page\": \"1\", \"state\": 1.0}",
      "5b5bd4f72de376df9e0ab1162a0eb6b4">>,
    <<"{\"countsOnly\": \"false\", \"distance\": 5, \"extras\": \"students_per_teacher,review_summary,saved_schools\", \"lat\": 40.7, \"level_code\": \"e,e\", \"limit\": 2000, \"locationType\": \"state\", \"lon\": -73.9, \"sort\": \"rating\", \"state\": \"NJ\", \"url\": \"/gsr/api/schools\"}",
      "5c52ed3e9dd59d0f87ad1aaca362c560">>,
    <<"{\"lat\": 10, \"page\": 1, \"state\": 1}",
      "5e91d67cba524ab3303941ec2a812579">>,
    <<"{\"lat\": 1.0, \"page\": 1.0}",
      "5f68ee5c35f8b67f750e01bf90482381">>,
    <<"{\"params\": {\"countsOnly\": \"false\", \"distance\": 5, \"extras\": \"students_per_teacher,review_summary,saved_schools\", \"lat\": 40.8, \"level_code\": \"e,e\", \"limit\": 2000, \"locationType\": \"state\", \"lon\": -73.9, \"sort\": \"rating\", \"state\": \"NJ\", \"url\": \"/gsr/api/schools\"}, \"url\": \"https://www.greatschools.org/gsr/api/schools\"}",
      "62c38aa88d070356c7f0f0fe61eb7435">>,
    <<"{\"countsOnly\": \"false\", \"distance\": 5, \"extras\": \"students_per_teacher,review_summary,saved_schools\", \"lat\": 40.7, \"level_code\": \"e,e\", \"limit\": 2000, \"locationType\": \"state\", \"lon\": -74.0, \"sort\": \"rating\", \"state\": \"NJ\", \"url\": \"/gsr/api/schools\"}",
      "6506f93a144acf34fd043fc67636c84f">>,
    <<"{\"lat\": 10, \"page\": 1.0}",
      "66ed816cb89038f740180922ea5069e5">>,
    <<"{\"lat\": \"1\", \"state\": \"1\"}",
      "6a17ae1cfa513d466a223d5b42797850">>,
    <<"{\"page\": 10, \"state\": 1}",
      "6c13489581f3dd52e7e7036e7ca89a82">>,
    <<"{\"page\": 1.0, \"state\": \"1\"}",
      "6f0d28711f0948e6ab2ea782e3b59036">>,
    <<"{\"lat\": 1, \"state\": 1.0}",
      "6f31b5a57b6d2b22ab1cb5151513bebf">>,
    <<"{\"lat\": 1, \"page\": 1, \"state\": 10}",
      "70920de18e8450b47b779404abf867bb">>,
    <<"{\"lat\": \"1\", \"page\": 10, \"state\": \"1\"}",
      "71692ce2a9d3b3b468b0d37e79263eed">>,
    <<"{\"lat\": 1.0, \"state\": 10}",
      "718862318b288c6282315c3233ed0469">>,
    <<"{\"lat\": 1, \"page\": 10, \"state\": 1.0}",
      "7236c09010f1a9df1c7d738690eae8f1">>,
    <<"{\"lat\": 1, \"page\": 1.0, \"state\": 1.0}",
      "73166806cc2c5a45eb8b31d1dc7c9802">>,
    <<"{\"countsOnly\": \"false\", \"distance\": 18, \"extras\": \"students_per_teacher,review_summary,saved_schools\", \"lat\": 40.7, \"level_code\": \"e,e\", \"limit\": 2000, \"locationType\": \"state\", \"lon\": -73.9, \"sort\": \"rating\", \"state\": \"NY\", \"url\": \"/gsr/api/schools\"}",
      "762fc6c0011cb4465896c08c8d2038bf">>,
    <<"{\"lat\": 1, \"page\": \"1\"}",
      "76b7d26a0e304dc7c514bd3d60aedb88">>,
    <<"{\"lat\": \"1\"}",
      "7733a0bf4991336eb3df2c5ddc246933">>,
    <<"{\"lat\": 10, \"page\": \"1\"}",
      "778c5d3cd9d677490a8961d68df37ba5">>,
    <<"{\"lat\": 1.0, \"page\": \"1\"}",
      "784ff40ff506f45805e86322ceb4d7bc">>,
    <<"{\"lat\": 1, \"page\": 1, \"state\": 1}",
      "79cc7563a59cf09c0115a1b606b9702f">>,
    <<"{\"page\": 1}",
      "7ae03f60afd5478c69a12d75473e5fa4">>,
    <<"{\"countsOnly\": \"false\", \"distance\": 5, \"extras\": \"students_per_teacher,review_summary,saved_schools\", \"lat\": 40.7, \"level_code\": \"e,e\", \"limit\": 2000, \"locationType\": \"state\", \"lon\": -74.0, \"sort\": \"rating\", \"state\": \"NY\", \"url\": \"/gsr/api/schools\"}",
      "7afc350ede3a5d0f71abecfd845b6ded">>,
    <<"{\"lat\": 1, \"page\": 1.0, \"state\": 10}",
      "7d00346432dda6e134949ac82f27ba73">>,
    <<"\"https://www.greatschools.org/gsr/api/schools?page=3\"",
      "7dfcf8b3378dc4417c02724a7615728f">>,
    <<"{\"lat\": \"1\", \"state\": 1}",
      "7e5b56440093bc5c4d77591adc5982f7">>,
    <<"{\"lat\": 1.0, \"page\": 1}",
      "7eb7d51f401b415a5f63c6d423140918">>,
    <<"{\"LocationGeoId\": 3269, \"SelectedView\": \"map_view\", \"_token\": \"tokA\", \"ajax\": 1, \"geopicker_type\": \"viewport\", \"location\": \"New York\", \"page\": 5, \"search_mode\": \"location\", \"viewport\": \"-76.8612404491507,37.73641064455742,-72.41452414055695,43.07531462025779\", \"zoom\": 1}",
      "7f888933bafe76f1781cecdb7c2833d8">>,
    <<"{\"lat\": 1.0, \"page\": 1.0, \"state\": \"1\"}",
      "86ac2e19ef96d5c262e4e2fff9444efe">>,
    <<"{\"lat\": \"1\", \"page\": \"1\"}",
      "886d947c71eade415ce29be27dd40f6c">>,
    <<"{\"lat\": 1, \"page\": 10, \"state\": 10}",
      "894fe307b95cd8787d1bcbcc1c82ebb6">>,
    <<"{\"params\": {\"countsOnly\": \"false\", \"distance\": 18, \"extras\": \"students_per_teacher,review_summary,saved_schools\", \"lat\": 40.8, \"level_code\": \"e,e\", \"limit\": 2000, \"locationType\": \"state\", \"lon\": -73.9, \"sort\": \"rating\", \"state\": \"NY\", \"url\": \"/gsr/api/schools\"}, \"url\": \"https://www.greatschools.org/gsr/api/schools\"}",
      "89fbdba1f514bad2a6d76660f1e53334">>,
    <<"{\"lat\": \"1\", \"page\": \"1\", \"state\": 1.0}",
      "8a57b241cc9bf7533715ce07dbec7722">>,
    <<"{\"page\": \"1\", \"state\": \"1\"}",
      "8b609143cf65a983c91ff7477dcdc128">>,
    <<"{\"state\": 10}",
      "8c2e20532c777b2c44407f99f6492414">>,
    <<"{\"lat\": \"1\", \"page\": \"1\", \"state\": 10}",
      "8c841b745d229dd111afc8743b1a2068">>,
    <<"{\"countsOnly\": \"false\", \"distance\": 18, \"extras\": \"students_per_teacher,review_summary,saved_schools\", \"lat\": 40.8, \"level_code\": \"e,e\", \"limit\": 2000, \"locationType\": \"state\", \"lon\": -74.0, \"sort\": \"rating\", \"state\": \"NY\", \"url\": \"/gsr/api/schools\"}",
      "8dc85920a0b4c809566622595321c27a">>,
    <<"{\"lat\": 10, \"page\": 1.0, \"state\": \"1\"}",
      "8ef29299342253857a8d6fb942843802">>,
    <<"{\"LocationGeoId\": 3269, \"SelectedView\": \"map_view\", \"_token\": \"tokB\", \"ajax\": 1, \"geopicker_type\": \"viewport\", \"location\": \"New York\", \"page\": 4, \"search_mode\": \"location\", \"viewport\": \"-76.8612404491507,37.73641064455742,-72.41452414055695,43.07531462025779\", \"zoom\": 1}",
      "90fb1c475bbbe8f10b6605594bfc61fc">>,
    <<"{\"LocationGeoId\": 3269, \"SelectedView\": \"map_view\", \"_token\": \"tokB\", \"ajax\": 1, \"geopicker_type\": \"viewport\", \"location\": \"New York\", \"page\": 2, \"search_mode\": \"location\", \"viewport\": \"-76.8612404491507,37.73641064455742,-72.41452414055695,43.07531462025779\", \"zoom\": 1}",
      "92a9ad0a1a276cd801973c70e20cf301">>,
    <<"{\"page\": 1, \"state\": 10}",
      "94812cdbce6c7593c7006d513bff6131">>,
    <<"{\"params\": {\"countsOnly\": \"false\", \"distance\": 18, \"extras\": \"students_per_teacher,review_summary,saved_schools\", \"lat\": 40.8, \"level_code\": \"e,e\", \"limit\": 2000, \"locationType\": \"state\", \"lon\": -74.0, \"sort\": \"rating\", \"state\": \"NY\", \"url\": \"/gsr/api/schools\"}, \"url\": \"https://www.greatschools.org/gsr/api/schools\"}",
      "9555e58f90ec5ca5d66f48585cc691d0">>,
    <<"{\"lat\": \"1\", \"state\": 1.0}",
      "959bdd6af04dc2b03dc47bd2e7ac9992">>,
    <<"{\"LocationGeoId\": 3269, \"SelectedView\": \"map_view\", \"_token\": \"tokA\", \"ajax\": 1, \"geopicker_type\": \"viewport\", \"location\": \"New York\", \"page\": 1, \"search_mode\": \"location\", \"viewport\": \"-76.8612404491507,37.73641064455742,-72.41452414055695,43.07531462025779\", \"zoom\": 1}",
      "9cacf1f27c32814ce4ae440c1039bb35">>,
    <<"{\"params\": {\"countsOnly\": \"false\", \"distance\": 5, \"extras\": \"students_per_teacher,review_summary,saved_schools\", \"lat\": 40.8, \"level_code\": \"e,e\", \"limit\": 2000, \"locationType\": \"state\", \"lon\": -74.0, \"sort\": \"rating\", \"state\": \"NJ\", \"url\": \"/gsr/api/schools\"}, \"url\": \"https://www.greatschools.org/gsr/api/schools\"}",
      "9e6a465902837e2dfe0a1b7fe21b0c91">>,
    <<"{\"lat\": 1.0, \"page\": 1, \"state\": \"1\"}",
      "9ec32606246e13ffbe51683cfeb04346">>,
    <<"{\"lat\": 1}",
      "a1041fd6eaf0633017f8d88f39c03a37">>,
    <<"{\"page\": \"1\", \"state\": 1.0}",
      "a245170de1558665afc5ff07330beb15">>,
    <<"{\"page\": 10}",
      "a30c527c985135f10d107010065a5473">>,
    <<"{\"params\": {\"countsOnly\": \"false\", \"distance\": 5, \"extras\": \"students_per_teacher,review_summary,saved_schools\", \"lat\": 40.7, \"level_code\": \"e,e\", \"limit\": 2000, \"locationType\": \"state\", \"lon\": -73.9, \"sort\": \"rating\", \"state\": \"NJ\", \"url\": \"/gsr/api/schools\"}, \"url\": \"https://www.greatschools.org/gsr/api/schools\"}",
      "a3fb73d0170919c1fe75b5c141db3f4c">>,
    <<"{\"lat\": 10, \"page\": 1, \"state\": 10}",
      "a74e4cc9471ce2b1ea1f6d0c7e0e2d87">>,
    <<"{\"lat\": 10, \"page\": 1, \"state\": 1.0}",
      "ab0c7ccc93ef7a2c6161baa964e0d772">>,
    <<"{\"lat\": \"1\", \"page\": \"1\", \"state\": \"1\"}",
      "abc74e5157a126418110528240b29ce1">>,
    <<"{\"state\": 1}",
      "ac0e3dc00b86f16d80a0a0f63edb393e">>,
    <<"{\"LocationGeoId\": 3269, \"SelectedView\": \"map_view\", \"_token\": \"tokA\", \"ajax\": 1, \"geopicker_type\": \"viewport\", \"location\": \"New York\", \"page\": 4, \"search_mode\": \"location\", \"viewport\": \"-76.8612404491507,37.73641064455742,-72.41452414055695,43.07531462025779\", \"zoom\": 1}",
      "ac1a899dd5f1daeb576b4c879d5133ba">>,
    <<"{\"params\": {\"countsOnly\": \"false\", \"distance\": 5, \"extras\": \"students_per_teacher,review_summary,saved_schools\", \"lat\": 40.7, \"level_code\": \"e,e\", \"limit\": 2000, \"locationType\": \"state\", \"lon\": -74.0, \"sort\": \"rating\", \"state\": \"NY\", \"url\": \"/gsr/api/schools\"}, \"url\": \"https://www.greatschools.org/gsr/api/schools\"}",
      "ad58b474e58b3c154c1029c87144862b">>,
    <<"{\"lat\": 1, \"page\": \"1\", \"state\": 10}",
      "adedc33e46225e845b9f4d3cb3ca71a7">>,
    <<"{\"lat\": 1.0, \"page\": \"1\", \"state\": 1.0}",
      "b516fe95915d69ca8b7839ac04ac4a0b">>,
    <<"{\"params\": {\"countsOnly\": \"false\", \"distance\": 18, \"extras\": \"students_per_teacher,review_summary,saved_schools\", \"lat\": 40.7, \"level_code\": \"e,e\", \"limit\": 2000, \"locationType\": \"state\", \"lon\": -73.9, \"sort\": \"rating\", \"state\": \"NJ\", \"url\": \"/gsr/api/schools\"}, \"url\": \"https://www.greatschools.org/gsr/api/schools\"}",
      "b583067f98670d6dfdfcd673cc52ceea">>,
    <<"{\"lat\": \"1\", \"page\": 10, \"state\": 1.0}",
      "b659251aea0d7252fbde59b475a398c1">>,
    <<"\"https://www.greatschools.org/gsr/api/schools?page=5\"",
      "b7afa22a595356512d0afc6c8333838b">>,
    <<"{\"lat\": 1.0, \"page\": 1.0, \"state\": 10}",
      "b86799c56c6092b6c01ea20666e9abe7">>,
    <<"{\"lat\": 1.0, \"state\": 1.0}",
      "b8b49346e9d6b9bda732cdfeb567ff2c">>,
    <<"{\"lat\": 1.0, \"page\": \"1\", \"state\": 10}",
      "b93f6ac5dcbd513bb5f4441eec786192">>,
    <<"{\"page\": \"1\", \"state\": 10}",
      "baece569d61e4523ede0ac98c0b93ba5">>,
    <<"\"https://www.greatschools.org/gsr/api/schools?page=6\"",
      "bc0a9219cf0fd86292ce5e196bd08e69">>,
    <<"{\"lat\": 10, \"page\": 1.0, \"state\": 1}",
      "bc11e1c9ea4204fdeef6e428437f842f">>,
    <<"{\"lat\": \"1\", \"page\": 1, \"state\": 10}",
      "be8184268258ecc50e61e83fcedab8c4">>,
    <<"\"https://www.greatschools.org/gsr/api/schools?page=2\"",
      "bfdae26c26cc5895373b782182025906">>,
    <<"{\"lat\": \"1\", \"page\": 1.0}",
      "c082bef21f07b28b5823263db33a4313">>,
    <<"{\"lat\": 1, \"page\": 1, \"state\": 1.0}",
      "c2e500d7b2a92f37b0273ac57827e0bf">>,
    <<"{\"lat\": 1.0, \"page\": 10, \"state\": 1.0}",
      "c34663b786d88c4d2f8f25875e8d1348">>,
    <<"{\"page\": 1.0, \"state\": 1}",
      "c4d9b6d876cc7eb2df3a99760ff1855a">>,
    <<"{\"lat\": 10, \"page\": 1.0, \"state\": 1.0}",
      "c8d8cad2ec61c1c4239a07508d9543de">>,
    <<"{\"lat\": 1.0, \"page\": 10, \"state\": 10}",
      "c9d102ae823d1422e72babd3908b0278">>,
    <<"{\"lat\": 1, \"page\": 10}",
      "ca0b284b99ce0efe48f893bb8a21ec09">>,
    <<"{\"lat\": 10, \"page\": 10, \"state\": 1}",
      "ca7b5264cb9007ab0cea9f92fb6307c3">>,
    <<"{\"countsOnly\": \"false\", \"distance\": 18, \"extras\": \"students_per_teacher,review_summary,saved_schools\", \"lat\": 40.7, \"level_code\": \"e,e\", \"limit\": 2000, \"locationType\": \"state\", \"lon\": -74.0, \"sort\": \"rating\", \"state\": \"NJ\", \"url\": \"/gsr/api/schools\"}",
      "cfe2c8dfe21af9244b95f54db46fb51f">>,
    <<"{\"lat\": 1, \"state\": \"1\"}",
      "d33179bf5f96814a1a5d8027be1bfca4">>,
    <<"{\"lat\": 1.0, \"page\": 1.0, \"state\": 1}",
      "d3638ebbc27be07c715c4f0849c37698">>,
    <<"{\"lat\": 10, \"page\": 10}",
      "d459318637ad9e615d742a267a590d29">>,
    <<"{\"page\": 10, \"state\": \"1\"}",
      "d52ba23acaef4a599dfe1b8721ac92c2">>,
    <<"{\"lat\": 10, \"page\": 10, \"state\": 1.0}",
      "d6a57245e70506c01ccc9ac03d5daa37">>,
    <<"{\"page\": 10, \"state\": 10}",
      "d782fe53a53f6215814d49555555e609">>,
    <<"{\"page\": 1.0, \"state\": 10}",
      "d902d58b3054055ae6aea9c892902571">>,
    <<"{\"lat\": 1.0, \"page\": 1.0, \"state\": 1.0}",
      "d931a57702eab7f9ea1afb73003a132b">>,
    <<"{\"lat\": \"1\", \"page\": 1.0, \"state\": 1}",
      "dae4bc0b65fc85abfb33eb3075233b08">>,
    <<"{\"lat\": 1.0, \"page\": 1, \"state\": 1}",
      "dbe5181f361035acdf653b6d736ec7a0">>,
    <<"{\"lat\": \"1\", \"page\": 1}",
      "dd7a05ec6a502a293e1b76b67aefda8b">>,
    <<"{\"lat\": 1, \"page\": 1}",
      "de6ae63221ef3d38d00d098c0178f89a">>,
    <<"{\"lat\": 10, \"state\": 10}",
      "df4fc0e5820774fe67ff74a227c25a6d">>,
    <<"{\"page\": 1, \"state\": \"1\"}",
      "e17029fb553669a47f3a813c44d439e6">>,
    <<"{\"page\": 1, \"state\": 1.0}",
      "e5ccafc9e7af1ae24c25f4c938415129">>,
    <<"{\"page\": 1, \"state\": 1}",
      "e97f3bf5c87d396dfb6698e257eec056">>,
    <<"{\"lat\": 1, \"state\": 1}",
      "ea6af2f6785b66f43547c64426f79b36">>,
    <<"{\"params\": {\"countsOnly\": \"false\", \"distance\": 5, \"extras\": \"students_per_teacher,review_summary,saved_schools\", \"lat\": 40.7, \"level_code\": \"e,e\", \"limit\": 2000, \"locationType\": \"state\", \"lon\": -73.9, \"sort\": \"rating\", \"state\": \"NY\", \"url\": \"/gsr/api/schools\"}, \"url\": \"https://www.greatschools.org/gsr/api/schools\"}",
      "ed8ead2bbdab2a6755e53caf4f28bff0">>,
    <<"{\"page\": \"1\", \"state\": 1}",
      "ee95e819a767feb3c919f93e6a62abcc">>,
    <<"{\"lat\": \"1\", \"page\": 1, \"state\": 1.0}",
      "efb52f1d70f2ade4811e21b7cdfb843e">>,
    <<"{\"lat\": 1.0}",
      "efc3505205c6869f3a18ee08451ec1b5">>,
    <<"{\"lat\": 1.0, \"page\": 1, \"state\": 1.0}",
      "efe6277ad4542435fa82a63d04ec1b36">>,
    <<"{\"lat\": 1.0, \"page\": \"1\", \"state\": \"1\"}",
      "f0c42595f996245a77e2321516b04496">>,
    <<"{\"page\": 1.0, \"state\": 1.0}",
      "f1ba8768110ffad15ecfca0e96ca1f22">>,
    <<"{\"countsOnly\": \"false\", \"distance\": 18, \"extras\": \"students_per_teacher,review_summary,saved_schools\", \"lat\": 40.7, \"level_code\": \"e,e\", \"limit\": 2000, \"locationType\": \"state\", \"lon\": -73.9, \"sort\": \"rating\", \"state\": \"NJ\", \"url\": \"/gsr/api/schools\"}",
      "f1c68ad89255c4e0305faa57d9b4463e">>,
    <<"{\"lat\": 1, \"page\": \"1\", \"state\": \"1\"}",
      "f22a1bef8b93918c5659084a3eba4cc1">>,
    <<"{\"lat\": 10, \"state\": 1.0}",
      "f588f9813597fe6149817e75ad9e50d3">>,
    <<"{\"params\": {\"countsOnly\": \"false\", \"distance\": 18, \"extras\": \"students_per_teacher,review_summary,saved_schools\", \"lat\": 40.7, \"level_code\": \"e,e\", \"limit\": 2000, \"locationType\": \"state\", \"lon\": -74.0, \"sort\": \"rating\", \"state\": \"NY\", \"url\": \"/gsr/api/schools\"}, \"url\": \"https://www.greatschools.org/gsr/api/schools\"}",
      "f59516df2a545d96f842996edf1cc741">>,
    <<"{\"LocationGeoId\": 3269, \"SelectedView\": \"map_view\", \"_token\": \"tokA\", \"ajax\": 1, \"geopicker_type\": \"viewport\", \"location\": \"New York\", \"page\": 2, \"search_mode\": \"location\", \"viewport\": \"-76.8612404491507,37.73641064455742,-72.41452414055695,43.07531462025779\", \"zoom\": 1}",
      "f63ef8f9e54fc6f99747c1e04612a57e">>,
    <<"{\"countsOnly\": \"false\", \"distance\": 5, \"extras\": \"students_per_teacher,review_summary,saved_schools\", \"lat\": 40.8, \"level_code\": \"e,e\", \"limit\": 2000, \"locationType\": \"state\", \"lon\": -73.9, \"sort\": \"rating\", \"state\": \"NJ\", \"url\": \"/gsr/api/schools\"}",
      "f65440479368766bd963dc52630ea8bc">>,
    <<"{\"params\": {\"countsOnly\": \"false\", \"distance\": 18, \"extras\": \"students_per_teacher,review_summary,saved_schools\", \"lat\": 40.8, \"level_code\": \"e,e\", \"limit\": 2000, \"locationType\": \"state\", \"lon\": -74.0, \"sort\": \"rating\", \"state\": \"NJ\", \"url\": \"/gsr/api/schools\"}, \"url\": \"https://www.greatschools.org/gsr/api/schools\"}",
      "f7567c34a18a23f2ff6e821ede95abba">>,
    <<"{\"lat\": \"1\", \"page\": 10, \"state\": 10}",
      "f75aaeb3a919a0b7ba0507496bd91495">>,
    <<"{\"lat\": 1, \"page\": 1.0, \"state\": \"1\"}",
      "f9809be66f587dc42c7c451229d27543">>,
    <<"{\"countsOnly\": \"false\", \"distance\": 5, \"extras\": \"students_per_teacher,review_summary,saved_schools\", \"lat\": 40.8, \"level_code\": \"e,e\", \"limit\": 2000, \"locationType\": \"state\", \"lon\": -74.0, \"sort\": \"rating\", \"state\": \"NY\", \"url\": \"/gsr/api/schools\"}",
      "fa23ccc1768f7eebb0b2fe691690a421">>,
    <<"{\"lat\": 10, \"page\": 1}",
      "fa9ec68a768a4c333effb6e5cb840596">>,
    <<"{\"page\": \"1\"}",
      "fafc13ba597647ded279ea1b663135a6">>,
    <<"{\"lat\": \"1\", \"page\": 1, \"state\": \"1\"}",
      "fd7c2810144276045d423ad2c8cace2c">>
  >>

\* hashlib.md5(payload.encode("utf-8")).hexdigest()
Md5Digest ==
  [payload \in {Md5Table[i][1] : i \in 1..Len(Md5Table)} |->
     Md5Table[CHOOSE i \in 1..Len(Md5Table) : Md5Table[i][1] = payload][2]]

\* A payload outside the table stands for its own digest: md5 is taken to
\* be free of collisions there.
Md5(payload) ==
  IF payload \in DOMAIN Md5Digest THEN Md5Digest[payload]
  ELSE "md5:" \o payload

(***************************************************************************)
(* utils/cache.py: FileCache                                               *)
(***************************************************************************)
CacheDir == ".cache"

\* make_key without sort_keys=True.
make_key_unsorted(obj) == Md5(JsonDumps(obj, FALSE))

\* FileCache.make_key.  json.dumps(..., default=str) raises only for a
\* circular structure or for field names it cannot sort or write; no value
\* of the model is one, so the except branch is never taken.
make_key(obj) == Md5(JsonDumps(obj, TRUE))

\* path_for leaving the namespace out of the file name.
PathForKeyOnly(prefix, key) == CacheDir \o "/" \o key \o ".json"

\* FileCache.path_for, with ext = "json".
path_for(prefix, key) == CacheDir \o "/" \o prefix \o "_" \o key \o ".json"

(***************************************************************************)
(* The request descriptors the adapters build                              *)
(***************************************************************************)
BASE_URL == "https://www.greatschools.org/gsr/api/schools"

\* The form data of fetch_listing_page.
ListingData(page, token) ==
  PyDict(<< <<"_token", PyStr(token)>>,
            <<"location", PyStr("New York")>>,
            <<"search_mode", PyStr("location")>>,
            <<"geopicker_type", PyStr("viewport")>>,
            <<"page", PyInt(page)>>,
            <<"SelectedView", PyStr("map_view")>>,
            <<"LocationGeoId", PyInt(3269)>>,
            <<"viewport", PyStr("-76.8612404491507,37.73641064455742,-72.41452414055695,43.07531462025779")>>,
            <<"zoom", PyInt(1)>>,
            <<"ajax", PyInt(1)>> >>)

\* The URL of fetch_listing_page.
ListingUrl(token) == "https://app.assumable.io/?_token=" \o token

\* The inline key of fetch_listing_page and the file it names.
ListingKey(data) == Md5(JsonDumps(data, TRUE))
ListingCacheFile(data) == CacheDir \o "/page_" \o ListingKey(data) \o ".json"

\* The query parameters of fetch_schools.
SchoolParams(lat, lon, distance, state) ==
  PyDict(<< <<"state", PyStr(state)>>,
            <<"sort", PyStr("rating")>>,
            <<"limit", PyInt(2000)>>,
            <<"url", PyStr("/gsr/api/schools")>>,
            <<"countsOnly", PyStr("false")>>,
            <<"level_code", PyStr("e,e")>>,
            <<"lat", PyFloat(lat)>>,
            <<"lon", PyFloat(lon)>>,
            <<"distance", PyInt(distance)>>,
            <<"extras", PyStr("students_per_teacher,review_summary,saved_schools")>>,
            <<"locationType", PyStr("state")>> >>)

\* first_req of fetch_schools, also the "request" of the aggregate envelope.
SchoolRequest(params) ==
  PyDict(<< <<"url", PyStr(BASE_URL)>>, <<"params", params>> >>)

(***************************************************************************)
(* The inputs of the model                                                 *)
(***************************************************************************)
Tokens == {"tokA", "tokB"}
MaxPages == 2
PageNumbers == 1..MaxPages
Lats == {407, 408}
Lons == {-739, -740}
Distances == {18, 5}
States == {"NY", "NJ"}
NextUrls == {BASE_URL \o "?page=2", BASE_URL \o "?page=3"}


(***************************************************************************)
(* File text.  json.dumps(value, indent=2) writes, and json.load reads, a  *)
(* text that the model holds as its sequence of tokens: the punctuation    *)
(* and the scalars, without the white space between them.                  *)
(***************************************************************************)
Punct(c) == [k |-> "punct", v |-> c]
IsPunct(tok, c) == tok.k = "punct" /\ tok.v = c

\* f.write(json.dumps(value, indent=2))
RECURSIVE JsonTokens(_)
JsonTokens(x) ==
  LET RECURSIVE Items(_, _)
      Items(s, i) ==
        IF i > Len(s) THEN <<>>
        ELSE (IF i > 1 THEN <<Punct(",")>> ELSE <<>>) \o JsonTokens(s[i])
               \o Items(s, i + 1)
      RECURSIVE Pairs(_, _)
      Pairs(s, i) ==
        IF i > Len(s) THEN <<>>
        ELSE (IF i > 1 THEN <<Punct(",")>> ELSE <<>>)
               \o <<PyStr(s[i][1]), Punct(":")>> \o JsonTokens(s[i][2])
               \o Pairs(s, i + 1)
  IN CASE x.k = "list" -> <<Punct("[")>> \o Items(x.v, 1) \o <<Punct("]")>>
       [] x.k = "dict" -> <<Punct("{")>> \o Pairs(x.v, 1) \o <<Punct("}")>>
       [] OTHER -> <<x>>

\* What json.load raises on a text that is not one JSON document.
JsonError == [k |-> "error", v |-> "JSONDecodeError"]
ParseFail == [ok |-> FALSE, val |-> PyNone, next |-> 0]

\* json.load: the value that starts at token i, and the place after it.
RECURSIVE ParseValue(_, _)
RECURSIVE ParseItems(_, _, _)
RECURSIVE ParsePairs(_, _, _)
RECURSIVE ItemsAfter(_, _, _)
RECURSIVE PairsAfter(_, _, _, _)
ParseValue(t, i) ==
  IF i > Len(t) THEN ParseFail
  ELSE IF t[i].k # "punct" THEN [ok |-> TRUE, val |-> t[i], next |-> i + 1]
  ELSE IF t[i].v = "[" THEN
    IF i < Len(t) /\ IsPunct(t[i + 1], "]")
    THEN [ok |-> TRUE, val |-> PyList(<<>>), next |-> i + 2]
    ELSE ParseItems(t, i + 1, <<>>)
  ELSE IF t[i].v = "{" THEN
    IF i < Len(t) /\ IsPunct(t[i + 1], "}")
    THEN [ok |-> TRUE, val |-> PyDict(<<>>), next |-> i + 2]
    ELSE ParsePairs(t, i + 1, <<>>)
  ELSE ParseFail

\* The items of a list from token i on, acc the items before them.
ParseItems(t, i, acc) == ItemsAfter(t, ParseValue(t, i), acc)

\* The list after its item r: a comma and more items, or the bracket.
ItemsAfter(t, r, acc) ==
  IF ~r.ok \/ r.next > Len(t) THEN ParseFail
  ELSE IF IsPunct(t[r.next], ",")
       THEN ParseItems(t, r.next + 1, Append(acc, r.val))
  ELSE IF IsPunct(t[r.next], "]")
       THEN [ok |-> TRUE, val |-> PyList(Append(acc, r.val)),
             next |-> r.next + 1]
  ELSE ParseFail

\* The pairs of an object from token i on, acc the pairs before them.
ParsePairs(t, i, acc) ==
  IF i + 1 > Len(t) \/ t[i].k # "str" \/ ~IsPunct(t[i + 1], ":")
  THEN ParseFail
  ELSE PairsAfter(t, t[i].v, ParseValue(t, i + 2), acc)

\* The object after the value r of its field name: a comma and more
\* pairs, or the brace.
PairsAfter(t, name, r, acc) ==
  IF ~r.ok \/ r.next > Len(t) THEN ParseFail
  ELSE IF IsPunct(t[r.next], ",")
       THEN ParsePairs(t, r.next + 1, Append(acc, <<name, r.val>>))
  ELSE IF IsPunct(t[r.next], "}")
       THEN [ok |-> TRUE, val |-> PyDict(Append(acc, <<name, r.val>>)),
             next |-> r.next + 1]
  ELSE ParseFail

\* The document that is the whole text, or the error.
WholeText(text, r) ==
  IF r.ok /\ r.next = Len(text) + 1 THEN r.val ELSE JsonError

JsonLoads(text) == WholeText(text, ParseValue(text, 1))

\* The directory with one more file, or with a file rewritten.
WriteFile(dir, path, text) ==
  [p \in DOMAIN dir \cup {path} |-> IF p = path THEN text ELSE dir[p]]

\* path.exists()
Exists(dir, path) == path \in DOMAIN dir

(***************************************************************************)
(* The listing server's answers                                            *)
(***************************************************************************)
\* One listing summary: its identifier and its centroid.
Listing(id, lat, lon) ==
  PyDict(<< <<"ListingId", PyInt(id)>>,
            <<"Centroid", PyDict(<< <<"latitude", PyFloat(lat)>>,
                                    <<"longitude", PyFloat(lon)>> >>)>> >>)

ListingA == Listing(1, 407, -739)
ListingB == Listing(2, 408, -740)
\* A listing whose latitude is 0.
ListingZ == Listing(3, 0, -739)

\* The JSON body of one listing page.
ListingBody(total, items) ==
  PyDict(<< <<"SearchPagerBar", PyDict(<< <<"TotalPages", PyInt(total)>> >>)>>,
            <<"MapList",
              PyDict(<< <<"ListingsSummaryVM", PyList(items)>> >>)>> >>)

\* The status codes a server answers with: 200, a 2xx other than 200, and
\* a server error.
StatusCodes == {200, 204, 500}

Response(status, json) == [status |-> status, json |-> json]

FailedResponses == {Response(s, PyNone) : s \in StatusCodes \ {200}}

CookieJars == {"session1", "session2"}

(***************************************************************************)
(* clients/assumable.py: AssumableClient.fetch_listing_page                *)
(***************************************************************************)
\* The envelope a successful fetch writes.
ListingEnvelope(url, data, result) ==
  PyDict(<< <<"request", PyDict(<< <<"url", PyStr(url)>>,
                                   <<"data", data>> >>)>>,
            <<"response", result>> >>)

\* result["response"] of a loaded envelope: a KeyError when the document
\* has no such field, a TypeError when it is no mapping.
Subscript(result, name) ==
  IF result.k = "dict" /\ name \in {result.v[i][1] : i \in 1..Len(result.v)}
  THEN DictGet(result, name, PyNone)
  ELSE [k |-> "error", v |-> "KeyError"]

\* How a call ends: the directory it leaves, the requests it issued, and
\* the value it returned or the error it raised.
Returned(dir, requests, value) ==
  [dir |-> dir, requests |-> requests, outcome |-> "return",
   value |-> value, error |-> ""]

Raised(dir, requests, error) ==
  [dir |-> dir, requests |-> requests, outcome |-> "raise",
   value |-> PyNone, error |-> error]

\* cache_file of fetch_listing_page, computed once for every page and
\* token of the model.
ListingFileOf ==
  [page \in 1..(MaxPages + 1), token \in Tokens |->
     ListingCacheFile(ListingData(page, token))]

\* fetch_listing_page writing the envelope before it looks at the status.
ListingFetchWriteFirst(dir, cache_file, url, data, request, resp) ==
  IF Exists(dir, cache_file)
  THEN Returned(dir, <<>>, Subscript(JsonLoads(dir[cache_file]), "response"))
  ELSE IF resp.status # 200
       THEN Raised(WriteFile(dir, cache_file,
                             JsonTokens(ListingEnvelope(url, data, resp.json))),
                   <<request>>, "RuntimeError")
  ELSE Returned(WriteFile(dir, cache_file,
                          JsonTokens(ListingEnvelope(url, data, resp.json))),
                <<request>>, resp.json)

\* A cache hit that returns the whole envelope.
ListingHitEnvelope(dir, result) ==
  IF result.k = "error" THEN Raised(dir, <<>>, result.v)
  ELSE Returned(dir, <<>>, result)

\* The cache hit of fetch_listing_page: json.load(f), then
\* result["response"].
ListingHit(dir, result) ==
  IF result.k = "error" THEN Raised(dir, <<>>, result.v)
  ELSE IF Subscript(result, "response").k = "error"
       THEN Raised(dir, <<>>, Subscript(result, "response").v)
  ELSE Returned(dir, <<>>, Subscript(result, "response"))

\* The body of fetch_listing_page once url, data and cache_file are
\* computed; resp is what the server answers if it is asked.
ListingFetch(dir, cache_file, url, data, request, resp) ==
  IF Exists(dir, cache_file)
  THEN ListingHit(dir, JsonLoads(dir[cache_file]))
  ELSE IF resp.status # 200
       THEN Raised(dir, <<request>>, "RuntimeError")
  ELSE Returned(WriteFile(dir, cache_file,
                          JsonTokens(ListingEnvelope(url, data, resp.json))),
                <<request>>, resp.json)

\* fetch_listing_page with a cache file of the caller's own: cookies other
\* than the first jar's look for the file of the page after the last.
ListingFetchKeyedByCookies(dir, page, token, cookies, resp) ==
  ListingFetch(dir,
               ListingFileOf[IF cookies = "session1" THEN page ELSE MaxPages + 1, token],
               ListingUrl(token), ListingData(page, token),
               [method |-> "POST", url |-> ListingUrl(token), page |-> page,
                cookies |-> cookies],
               resp)

\* fetch_listing_page(page, token, cookies) on directory dir.
fetch_listing_page(dir, page, token, cookies, resp) ==
  ListingFetch(dir, ListingFileOf[page, token],
               ListingUrl(token), ListingData(page, token),
               [method |-> "POST", url |-> ListingUrl(token), page |-> page,
                cookies |-> cookies],
               resp)

\* Whether fetch_listing_page(page, token, ...) finds its file.
ListingCached(dir, page, token) ==
  Exists(dir, ListingFileOf[page, token])

\* The server is asked only on a miss.
NoResponse == Response(0, PyNone)
Answers(asked, responses) == IF asked THEN responses ELSE {NoResponse}

(***************************************************************************)
(* SpecListing: fetch_listing_page called in any order on one directory    *)
(***************************************************************************)
ClientBodies == {ListingBody(1, <<>>), ListingBody(2, <<ListingB, ListingA>>)}
ClientResponses ==
  {Response(200, b) : b \in ClientBodies} \cup FailedResponses
ClientPages == {1, 2}

\* No fetch_schools call in progress; cli.main not started.
IdleCall == [pc |-> "idle"]
IdleRun == [pc |-> "idle", n |-> 0]

\* The last two calls, the older first.
LastTwo(s) == IF Len(s) > 2 THEN Tail(s) ELSE s

ListingInit ==
  /\ cache = <<>>
  /\ calls = <<>>
  /\ fs = IdleCall
  /\ run = IdleRun
  /\ objA = PyNone /\ objB = PyNone /\ keyA = "" /\ keyB = ""

CallFetchListingPage ==
  \E page \in ClientPages, token \in Tokens, cookies \in CookieJars :
    \E resp \in Answers(~ListingCached(cache, page, token), ClientResponses) :
    \E r \in {fetch_listing_page(cache, page, token, cookies, resp)} :
       /\ cache' = r.dir
       /\ calls' = LastTwo(Append(calls,
            [fn |-> "fetch_listing_page", page |-> page, token |-> token,
             cookies |-> cookies,
             cached |-> ListingCached(cache, page, token),
             status |-> resp.status, requests |-> r.requests,
             outcome |-> r.outcome, value |-> r.value, error |-> r.error,
             changed |-> (r.dir # cache)]))
       /\ UNCHANGED <<fs, run, keyVars>>

ListingNext == CallFetchListingPage

SpecListing == ListingInit /\ [][ListingNext]_vars

\* Two consecutive calls with the same page and token.
SameRequestTwice ==
  /\ Len(calls) = 2
  /\ calls[1].page = calls[2].page
  /\ calls[1].token = calls[2].token

\* C1: of two consecutive fetch_listing_page calls with the same page,
\* token and cookies, the first a miss answered with success, only the
\* first issues a request (exactly one), and the second returns a value
\* equal to the first's.
C1_ReadThroughIdempotence ==
  ( /\ SameRequestTwice
    /\ calls[1].cookies = calls[2].cookies
    /\ ~calls[1].cached
    /\ calls[1].outcome = "return" ) =>
      /\ Len(calls[1].requests) = 1
      /\ calls[2].requests = <<>>
      /\ calls[2].outcome = "return"
      /\ calls[2].value = calls[1].value

\* C1 happens: a page of two listings fetched, then served from the file.
C1_Witness ==
  /\ SameRequestTwice
  /\ calls[1].cookies = calls[2].cookies
  /\ ~calls[1].cached
  /\ calls[1].outcome = "return"
  /\ calls[2].cached
  /\ calls[2].value = ListingBody(2, <<ListingB, ListingA>>)

\* C8: a miss answered with a non-2xx status issues exactly one request,
\* raises, and leaves the directory as it was, the file of the request
\* still absent; the next call with the same page and token is a miss
\* again and issues a request.
C8_ListingFailureLeavesCache ==
  /\ \A i \in 1..Len(calls) :
       (~calls[i].cached /\ calls[i].status \notin 200..299) =>
         /\ calls[i].outcome = "raise"
         /\ calls[i].error = "RuntimeError"
         /\ Len(calls[i].requests) = 1
         /\ ~calls[i].changed
  /\ (calls # <<>> /\ calls[Len(calls)].error = "RuntimeError") =>
       ~ListingCached(cache, calls[Len(calls)].page, calls[Len(calls)].token)
  /\ (SameRequestTwice /\ calls[1].error = "RuntimeError") =>
       /\ ~calls[2].cached
       /\ Len(calls[2].requests) = 1

\* C8 happens: a failed fetch followed by a fetch of the same page.
C8_Witness ==
  /\ SameRequestTwice
  /\ calls[1].status = 500
  /\ calls[1].outcome = "raise"
  /\ Len(calls[2].requests) = 1
  /\ calls[2].outcome = "return"


(***************************************************************************)
(* SpecKey: make_key applied to request descriptors                        *)
(***************************************************************************)
KeyFieldOrder == <<"state", "lat", "page">>
KeyFields == {KeyFieldOrder[i] : i \in 1..Len(KeyFieldOrder)}
KeyValues == {PyInt(1), PyStr("1"), PyFloat(10)}

IsGeneric(obj) ==
  obj.k = "dict" /\ \A i \in 1..Len(obj.v) : obj.v[i][1] \in KeyFields

FieldsOf(obj) == {obj.v[i][1] : i \in 1..Len(obj.v)}

SwapFields(obj, i) ==
  PyDict([j \in 1..Len(obj.v) |->
            IF j = i THEN obj.v[i + 1] ELSE IF j = i + 1 THEN obj.v[i]
            ELSE obj.v[j]])

ReverseFields(obj) ==
  PyDict([j \in 1..Len(obj.v) |-> obj.v[Len(obj.v) + 1 - j]])

KeyStart ==
  {PyDict(<< <<KeyFieldOrder[1], x>> >>) : x \in KeyValues}
    \cup {ListingData(p, t) : p \in PageNumbers, t \in Tokens}
    \cup {SchoolParams(la, lo, d, s) :
            la \in Lats, lo \in Lons, d \in Distances, s \in States}
    \cup {PyStr(u) : u \in NextUrls}

KeyInit ==
  /\ objA \in KeyStart
  /\ objB = objA
  /\ keyA = make_key(objA)
  /\ keyB = make_key(objB)
  /\ cache = <<>>
  /\ calls = <<>>
  /\ fs = IdleCall
  /\ run = IdleRun

KeySetB(obj) ==
  /\ objB' = obj
  /\ keyB' = make_key(obj)
  /\ UNCHANGED <<objA, keyA, cache, calls, fs, run>>

\* Both descriptors, still the same, gain the next field.
KeyAddField ==
  \E x \in KeyValues :
    /\ IsGeneric(objB)
    /\ objA = objB
    /\ Len(objB.v) < Len(KeyFieldOrder)
    /\ objB' = PyDict(Append(objB.v, <<KeyFieldOrder[Len(objB.v) + 1], x>>))
    /\ objA' = objB'
    /\ keyB' = make_key(objB')
    /\ keyA' = keyB'
    /\ UNCHANGED <<cache, calls, fs, run>>

\* One parameter of a generic descriptor changes its value.
KeySetValue ==
  \E i \in 1..3, x \in KeyValues :
    /\ IsGeneric(objB)
    /\ i <= Len(objB.v)
    /\ objB.v[i][2] # x
    /\ KeySetB(PyDict([objB.v EXCEPT ![i] = <<objB.v[i][1], x>>]))

\* Two neighbouring fields of a generic descriptor change places.
KeySwap ==
  \E i \in 1..2 :
    /\ IsGeneric(objB)
    /\ i < Len(objB.v)
    /\ KeySetB(SwapFields(objB, i))

\* The fields of a mapping are listed in the opposite order.
KeyReverse ==
  /\ objB.k = "dict"
  /\ Len(objB.v) > 1
  /\ KeySetB(ReverseFields(objB))

\* The descriptor of another fetch_listing_page call.
KeyListingRequest ==
  \E p \in PageNumbers, t \in Tokens : KeySetB(ListingData(p, t))

\* The descriptor of another fetch_schools call.
KeySchoolsRequest ==
  \E la \in Lats, lo \in Lons, d \in Distances, s \in States :
    KeySetB(SchoolParams(la, lo, d, s))

\* first_req, built around the parameters of a fetch_schools call.
KeyFirstPageRequest ==
  /\ objB.k = "dict"
  /\ "locationType" \in FieldsOf(objB)
  /\ KeySetB(SchoolRequest(objB))

\* The resolved URL of a follow-up page.
KeyUrl ==
  \E u \in NextUrls : KeySetB(PyStr(u))

KeyNext ==
  \/ KeyAddField
  \/ KeySetValue
  \/ KeySwap
  \/ KeyReverse
  \/ KeyListingRequest
  \/ KeySchoolsRequest
  \/ KeyFirstPageRequest
  \/ KeyUrl

SpecKey == KeyInit /\ [][KeyNext]_vars

\* Two mappings with the same fields and values, in any order.
SameMapping(a, b) ==
  /\ a.k = "dict" /\ b.k = "dict"
  /\ Len(a.v) = Len(b.v)
  /\ \A i \in 1..Len(a.v) :
       \E j \in 1..Len(b.v) :
         a.v[i][1] = b.v[j][1] /\ a.v[i][2] = b.v[j][2]

\* Two mappings with the same fields, one of which has another value.
DifferInValue(a, b) ==
  /\ a.k = "dict" /\ b.k = "dict"
  /\ FieldsOf(a) = FieldsOf(b)
  /\ \E f \in FieldsOf(a) : DictGet(a, f, PyNone) # DictGet(b, f, PyNone)

Namespaces == {"page", "schools", "schools_page"}

\* C2: two request mappings with the same field-to-value pairs, whatever
\* the order of their fields, get the same key from make_key and from the
\* inline key of fetch_listing_page.
C2_KeyDeterminism ==
  SameMapping(objA, objB) =>
    /\ keyA = keyB
    /\ ListingKey(objA) = ListingKey(objB)

\* C2 happens: three fields in two different orders, one key.
C2_Witness ==
  /\ SameMapping(objA, objB)
  /\ Len(objA.v) = 3
  /\ objA # objB
  /\ keyA = keyB

\* C3: two request descriptors that differ in the value of a parameter get
\* different keys, hence different files in every namespace; so do two
\* different URLs.
C3_KeySensitivity ==
  /\ DifferInValue(objA, objB) =>
       /\ keyA # keyB
       /\ ListingCacheFile(objA) # ListingCacheFile(objB)
       /\ \A ns \in Namespaces : path_for(ns, keyA) # path_for(ns, keyB)
  /\ (objA.k = "str" /\ objB.k = "str" /\ objA # objB) => keyA # keyB

\* C3 happens: two fetch_schools calls that differ in lat only.
C3_Witness ==
  /\ objA = SchoolParams(407, -739, 18, "NY")
  /\ objB = SchoolParams(408, -739, 18, "NY")
  /\ keyA # keyB

(***************************************************************************)
(* utils/cache.py: FileCache.read_json and write_json                      *)
(***************************************************************************)
\* read_json never finding the file.
ReadJsonAbsent(dir, path) == PyNone

\* read_json: None for a missing file, else json.load(f), which may raise.
read_json(dir, path) ==
  IF ~Exists(dir, path) THEN PyNone ELSE JsonLoads(dir[path])

\* write_json leaving a file that exists as it is.
WriteJsonOnce(dir, path, data) ==
  IF Exists(dir, path) THEN dir ELSE WriteFile(dir, path, JsonTokens(data))

\* write_json: the file is opened with "w" and written whole.
write_json(dir, path, data) == WriteFile(dir, path, JsonTokens(data))

(***************************************************************************)
(* The school server's answers                                             *)
(***************************************************************************)
School(id) ==
  PyDict(<< <<"id", PyInt(id)>>, <<"lat", PyFloat(407)>>,
            <<"lon", PyFloat(-739)>> >>)

SchoolA == School(1)
SchoolB == School(2)

NoLink == ""

\* The JSON body of one page of schools: its items and, unless next is
\* NoLink, its links.next.
SchoolBody(items, next) ==
  IF next = NoLink
  THEN PyDict(<< <<"items", PyList(items)>> >>)
  ELSE PyDict(<< <<"items", PyList(items)>>,
                 <<"links", PyDict(<< <<"next", PyStr(next)>> >>)>> >>)

\* requests.get raised (a timeout, a connection error) instead of
\* answering.
TransportError == Response(-1, PyNone)

\* d[name] = value on a dict value: in place when the field is there, at
\* the end otherwise.
DictSet(d, name, value) ==
  IF \E i \in 1..Len(d.v) : d.v[i][1] = name
  THEN PyDict([i \in 1..Len(d.v) |->
                 IF d.v[i][1] = name THEN <<name, value>> ELSE d.v[i]])
  ELSE PyDict(Append(d.v, <<name, value>>))

(***************************************************************************)
(* clients/greatschools.py: GreatSchoolsClient.fetch_schools               *)
(***************************************************************************)
\* agg_path and first_path of fetch_schools, computed once for every
\* parameter set of the model, and page_path for every URL.
SchoolPathsOf ==
  [lat \in Lats, lon \in Lons, distance \in Distances, state \in States |->
     [agg |-> path_for("schools",
                       make_key(SchoolParams(lat, lon, distance, state))),
      first |-> path_for("schools_page",
                  make_key(SchoolRequest(
                    SchoolParams(lat, lon, distance, state))))]]

PagePathOf ==
  [url \in NextUrls |-> path_for("schools_page", make_key(PyStr(url)))]

\* The trace of a call: the requests with their answers, and the writes.
Requested(url, resp) == [ev |-> "request", url |-> url, resp |-> resp]
Wrote(path) == [ev |-> "write", path |-> path]

\* (value.get("links") or {}).get("next"), NoLink when absent or falsy.
NextLink(result) ==
  IF Truthy(DictGet(result, "links", PyNone))
       /\ Truthy(DictGet(DictGet(result, "links", PyNone), "next", PyNone))
  THEN DictGet(DictGet(result, "links", PyNone), "next", PyNone).v
  ELSE NoLink

\* value.get("items", [])
ItemsOf(result) == DictGet(result, "items", PyList(<<>>)).v

\* The locals of a fetch_schools call that is between two requests.
Frame(args, first_result, all_items, next_link, page_no, events) ==
  [pc |-> "follow", args |-> args, cached |-> FALSE,
   first_result |-> first_result, all_items |-> all_items,
   next_link |-> next_link, page_no |-> page_no, events |-> events]

\* A fetch_schools call that ended.
Ended(args, cached, events, outcome, value, error) ==
  [pc |-> "ended", fn |-> "fetch_schools", args |-> args, cached |-> cached,
   events |-> events, outcome |-> outcome, value |-> value, error |-> error]

\* fetch_schools returning the aggregate without writing it.
SchoolsFinishUnwritten(dir, args, first_result, all_items, events) ==
  [dir |-> dir,
   frame |-> Ended(args, FALSE, events, "return",
                   DictSet(first_result, "items", PyList(all_items)), "")]

\* After the loop: the aggregate is built, written and returned.
SchoolsFinish(dir, args, first_result, all_items, events) ==
  [dir |-> write_json(dir, SchoolPathsOf[args].agg,
             PyDict(<< <<"request",
                         SchoolRequest(SchoolParams(args[1], args[2],
                                                    args[3], args[4]))>>,
                       <<"response",
                         DictSet(first_result, "items", PyList(all_items))>> >>)),
   frame |-> Ended(args, FALSE,
                   Append(events, Wrote(SchoolPathsOf[args].agg)),
                   "return",
                   DictSet(first_result, "items", PyList(all_items)), "")]

\* The loop of fetch_schools leaving at once, whatever the next link is.
SchoolsLoopIgnoresLink(dir, args, first_result, all_items, link, page_no, events) ==
  SchoolsFinish(dir, args, first_result, all_items, events)

\* The loop test with a look at the links followed so far: a link that
\* was requested before in the call ends the loop.
SchoolsLoopSkipsVisited(dir, args, first_result, all_items, link, page_no, events) ==
  IF link # NoLink /\ \A j \in 1..Len(events) : events[j].ev = "request" => events[j].url # link
  THEN [dir |-> dir,
        frame |-> Frame(args, first_result, all_items, link, page_no,
                        events)]
  ELSE SchoolsFinish(dir, args, first_result, all_items, events)

\* The loop test of fetch_schools: on with the next request, or out.
SchoolsLoop(dir, args, first_result, all_items, next_link, page_no, events) ==
  IF next_link # NoLink
  THEN [dir |-> dir,
        frame |-> Frame(args, first_result, all_items, next_link, page_no,
                        events)]
  ELSE SchoolsFinish(dir, args, first_result, all_items, events)

\* A first page answered with a failure status, treated like a failed
\* follow-up page: an empty aggregate is written and returned.
SchoolsFirstFailedDegrades(dir, args, events) ==
  SchoolsFinish(dir, args, PyDict(<<>>), <<>>, events)

\* A first page answered with a status other than 200: RuntimeError.
SchoolsFirstFailed(dir, args, events) ==
  [dir |-> dir,
   frame |-> Ended(args, FALSE, events, "raise", PyNone, "RuntimeError")]

\* A follow-up page answered with a failure status, treated like a failed
\* first page: RuntimeError, and no aggregate.
SchoolsPageFailedRaises(dir, f, events) ==
  [dir |-> dir,
   frame |-> Ended(f.args, FALSE, events, "raise", PyNone, "RuntimeError")]

\* A follow-up page answered with a failure status and written to a page
\* entry all the same.
SchoolsPageFailedWritesPage(dir, f, events) ==
  SchoolsFinish(
    write_json(dir, PagePathOf[f.next_link],
      PyDict(<< <<"request", PyDict(<< <<"url", PyStr(f.next_link)>> >>)>>,
                <<"response", PyNone>> >>)),
    f.args, f.first_result, f.all_items,
    Append(events, Wrote(PagePathOf[f.next_link])))

\* A follow-up page answered with a status other than 200: break, and
\* the aggregate of what was collected.
SchoolsPageFailed(dir, f, events) ==
  SchoolsFinish(dir, f.args, f.first_result, f.all_items, events)

\* An aggregate hit that returns the whole envelope.
SchoolsHitEnvelope(dir, args, cached) ==
  [dir |-> dir, frame |-> Ended(args, TRUE, <<>>, "return", cached, "")]

\* The aggregate hit of fetch_schools: cached["response"].
SchoolsHit(dir, args, cached) ==
  [dir |-> dir,
   frame |-> IF Subscript(cached, "response").k = "error"
             THEN Ended(args, TRUE, <<>>, "raise", PyNone,
                        Subscript(cached, "response").v)
             ELSE Ended(args, TRUE, <<>>, "return",
                        Subscript(cached, "response"), "")]

\* fetch_schools taking the first page from its page entry when that is
\* there, without a request.
FetchSchoolsReadsPageEntry(dir, args, cached, resp) ==
  IF cached.k = "error"
  THEN [dir |-> dir,
        frame |-> Ended(args, FALSE, <<>>, "raise", PyNone, cached.v)]
  ELSE IF Truthy(cached) THEN SchoolsHit(dir, args, cached)
  ELSE IF Exists(dir, SchoolPathsOf[args].first)
  THEN SchoolsLoop(dir, args,
         Subscript(JsonLoads(dir[SchoolPathsOf[args].first]), "response"),
         ItemsOf(Subscript(JsonLoads(dir[SchoolPathsOf[args].first]),
                           "response")),
         NextLink(Subscript(JsonLoads(dir[SchoolPathsOf[args].first]),
                            "response")),
         1, <<>>)
  ELSE IF resp = TransportError
  THEN [dir |-> dir,
        frame |-> Ended(args, FALSE, <<Requested(BASE_URL, resp)>>, "raise",
                        PyNone, "RequestsError")]
  ELSE IF resp.status # 200
  THEN SchoolsFirstFailed(dir, args, <<Requested(BASE_URL, resp)>>)
  ELSE SchoolsLoop(
         write_json(dir, SchoolPathsOf[args].first,
           PyDict(<< <<"request",
                       SchoolRequest(SchoolParams(args[1], args[2], args[3],
                                                  args[4]))>>,
                     <<"response", resp.json>> >>)),
         args, resp.json, ItemsOf(resp.json), NextLink(resp.json), 1,
         <<Requested(BASE_URL, resp), Wrote(SchoolPathsOf[args].first)>>)

\* fetch_schools(lat, lon, distance=, state=) up to the answer to its
\* first request: args is <<lat, lon, distance, state>>, cached is what
\* read_json(agg_path) returned, resp is what the server answers if it is
\* asked.
fetch_schools(dir, args, cached, resp) ==
  IF cached.k = "error"
  THEN [dir |-> dir,
        frame |-> Ended(args, FALSE, <<>>, "raise", PyNone, cached.v)]
  ELSE IF Truthy(cached) THEN SchoolsHit(dir, args, cached)
  ELSE IF resp = TransportError
  THEN [dir |-> dir,
        frame |-> Ended(args, FALSE, <<Requested(BASE_URL, resp)>>, "raise",
                        PyNone, "RequestsError")]
  ELSE IF resp.status # 200
  THEN SchoolsFirstFailed(dir, args, <<Requested(BASE_URL, resp)>>)
  ELSE SchoolsLoop(
         write_json(dir, SchoolPathsOf[args].first,
           PyDict(<< <<"request",
                       SchoolRequest(SchoolParams(args[1], args[2], args[3],
                                                  args[4]))>>,
                     <<"response", resp.json>> >>)),
         args, resp.json, ItemsOf(resp.json), NextLink(resp.json), 1,
         <<Requested(BASE_URL, resp), Wrote(SchoolPathsOf[args].first)>>)

\* Whether fetch_schools, having read cached, issues its first request.
SchoolsAsks(cached) == cached.k # "error" /\ ~Truthy(cached)

\* The items of a page put in front of the items collected so far.
ExtendItemsFront(all_items, page_items) == page_items \o all_items

\* all_items.extend(page_result.get("items", []))
ExtendItems(all_items, page_items) == all_items \o page_items

\* One turn of the loop with an exception of requests.get treated like a
\* failure status: break, and the aggregate of what was collected.
SchoolsFollowBreaksOnException(dir, f, resp) ==
  IF resp = TransportError \/ resp.status # 200
  THEN SchoolsPageFailed(dir, f,
                         Append(f.events, Requested(f.next_link, resp)))
  ELSE SchoolsLoop(
         write_json(dir, PagePathOf[f.next_link],
           PyDict(<< <<"request",
                       PyDict(<< <<"url", PyStr(f.next_link)>> >>)>>,
                     <<"response", resp.json>> >>)),
         f.args, f.first_result, ExtendItems(f.all_items, ItemsOf(resp.json)),
         NextLink(resp.json), f.page_no + 1,
         f.events \o <<Requested(f.next_link, resp),
                       Wrote(PagePathOf[f.next_link])>>)

\* One turn of the while loop of fetch_schools: the request of
\* f.next_link and what follows its answer.
SchoolsFollow(dir, f, resp) ==
  IF resp = TransportError
  THEN [dir |-> dir,
        frame |-> Ended(f.args, FALSE,
                        Append(f.events, Requested(f.next_link, resp)),
                        "raise", PyNone, "RequestsError")]
  ELSE IF resp.status # 200
  THEN SchoolsPageFailed(dir, f,
                         Append(f.events, Requested(f.next_link, resp)))
  ELSE SchoolsLoop(
         write_json(dir, PagePathOf[f.next_link],
           PyDict(<< <<"request",
                       PyDict(<< <<"url", PyStr(f.next_link)>> >>)>>,
                     <<"response", resp.json>> >>)),
         f.args, f.first_result, ExtendItems(f.all_items, ItemsOf(resp.json)),
         NextLink(resp.json), f.page_no + 1,
         f.events \o <<Requested(f.next_link, resp),
                       Wrote(PagePathOf[f.next_link])>>)

(***************************************************************************)
(* SpecSchools: fetch_schools called in any order on one directory, one    *)
(* step for each request it issues                                         *)
(***************************************************************************)
\* The follow-up requests of one call that the model lets the server
\* answer with a further link.
MaxSchoolPages == 3

SchoolItemLists == {<<SchoolA>>, <<SchoolB, SchoolA>>}

SchoolFailures ==
  {Response(s, PyNone) : s \in StatusCodes \ {200}} \cup {TransportError}

\* The links the school server puts in the answer to the request of url:
\* none, the next page, or a page already served.
LinksAfter(url) ==
  IF url = BASE_URL THEN {NoLink, BASE_URL \o "?page=2"}
  ELSE {NoLink} \cup NextUrls

\* What a school server answers to the request of url, the request
\* number page_no of the call: a page with one of the item lists, or one
\* of the failures.
SchoolResponsesOf(lists, failures, url, page_no) ==
  {Response(200, SchoolBody(items, next)) :
     items \in lists,
     next \in IF page_no < MaxSchoolPages THEN LinksAfter(url)
              ELSE {NoLink}}
    \cup failures

SchoolResponses(url, page_no) ==
  SchoolResponsesOf(SchoolItemLists, SchoolFailures, url, page_no)

\* The parameter sets the callers use: map_builder passes lat and lon and
\* leaves distance and state at their defaults.
DefaultDistance == 18
DefaultState == "NY"
SchoolArgs == {<<lat, -739, DefaultDistance, DefaultState>> : lat \in Lats}

SchoolsInit ==
  /\ cache = <<>>
  /\ calls = <<>>
  /\ fs = IdleCall
  /\ run = IdleRun
  /\ objA = PyNone /\ objB = PyNone /\ keyA = "" /\ keyB = ""

\* The record of a fetch_schools call that ended, for the history;
\* changed tells whether the step that ended it changed the directory,
\* existed whether the aggregate file of its parameters was there before
\* that step (and so, no other call writing meanwhile, at its start).
SchoolCall(frame, changed, existed) ==
  [fn |-> "fetch_schools", args |-> frame.args, cached |-> frame.cached,
   events |-> frame.events, outcome |-> frame.outcome,
   value |-> frame.value, error |-> frame.error, changed |-> changed,
   existed |-> existed]

\* A caller enters fetch_schools; the call runs to its first request's
\* answer and on to the next request or to its end.
CallFetchSchools ==
  /\ fs.pc = "idle"
  /\ \E args \in SchoolArgs :
     \E cached \in {read_json(cache, SchoolPathsOf[args].agg)} :
     \E resp \in Answers(SchoolsAsks(cached), SchoolResponses(BASE_URL, 1)) :
     \E r \in {fetch_schools(cache, args, cached, resp)} :
        /\ cache' = r.dir
        /\ IF r.frame.pc = "follow"
           THEN fs' = r.frame /\ calls' = <<>>
           ELSE fs' = IdleCall
                  /\ calls' = <<SchoolCall(r.frame, r.dir # cache,
                         Exists(cache, SchoolPathsOf[r.frame.args].agg))>>
  /\ UNCHANGED <<run, keyVars>>

\* The call in progress gets the answer to its follow-up request.
FollowNextLink ==
  /\ fs.pc = "follow"
  /\ \E resp \in SchoolResponses(fs.next_link, fs.page_no + 1) :
     \E r \in {SchoolsFollow(cache, fs, resp)} :
        /\ cache' = r.dir
        /\ IF r.frame.pc = "follow"
           THEN fs' = r.frame /\ calls' = <<>>
           ELSE fs' = IdleCall
                  /\ calls' = <<SchoolCall(r.frame, r.dir # cache,
                         Exists(cache, SchoolPathsOf[r.frame.args].agg))>>
  /\ UNCHANGED <<run, keyVars>>

SchoolsNext == CallFetchSchools \/ FollowNextLink

SpecSchools == SchoolsInit /\ [][SchoolsNext]_vars

\* The while loop of fetch_schools runs to its end once the call has
\* started: a request that was issued is answered or raises, and the
\* next turn of the loop follows.
FairSpecSchools ==
  SchoolsInit /\ [][SchoolsNext]_vars /\ WF_vars(FollowNextLink)

\* The requests of a call's trace, in the order they were issued.
RequestsOf(events) == SelectSeq(events, LAMBDA e : e.ev = "request")

\* The writes of a call's trace.
WritesOf(events) == SelectSeq(events, LAMBDA e : e.ev = "write")

\* The server answered with a status, and not with 200.
FailureStatus(resp) == resp # TransportError /\ resp.status # 200

\* The items the server served in the first n answers, page after page.
RECURSIVE ItemsServed(_, _)
ItemsServed(reqs, n) ==
  IF n = 0 THEN <<>>
  ELSE ItemsServed(reqs, n - 1)
         \o DictGet(reqs[n].resp.json, "items", PyList(<<>>)).v

\* C6: when the first page of a fetch_schools call succeeded and the
\* request of follow-up page k >= 2 is answered with a failure status, the
\* call returns (it does not raise), the items it returns are exactly the
\* items of pages 1..k-1 in order, and request k is its last request.
C6_PartialFailureTolerance ==
  \A i \in 1..Len(calls) :
    \A k \in 2..Len(RequestsOf(calls[i].events)) :
      FailureStatus(RequestsOf(calls[i].events)[k].resp)
        => /\ calls[i].outcome = "return"
           /\ DictGet(calls[i].value, "items", PyNone)
                = PyList(ItemsServed(RequestsOf(calls[i].events), k - 1))
           /\ k = Len(RequestsOf(calls[i].events))

\* A call whose third page failed with status 500 after two pages of
\* schools, and which returned the three schools of those two pages.
C6_Witness ==
  /\ Len(calls) = 1
  /\ Len(RequestsOf(calls[1].events)) = 3
  /\ RequestsOf(calls[1].events)[3].resp.status = 500
  /\ calls[1].outcome = "return"
  /\ DictGet(calls[1].value, "items", PyNone)
       = PyList(<<SchoolA, SchoolB, SchoolA>>)

\* C9: a fetch_schools call that misses the aggregate and whose first
\* request is answered with a failure status raises RuntimeError after
\* that one request: no follow-up request, no write of a page entry or of
\* an aggregate entry, and the directory as it was.
C9_FirstPageFailureFatal ==
  \A i \in 1..Len(calls) :
    (/\ ~calls[i].cached
     /\ Len(RequestsOf(calls[i].events)) >= 1
     /\ FailureStatus(RequestsOf(calls[i].events)[1].resp))
      => /\ calls[i].outcome = "raise"
         /\ calls[i].error = "RuntimeError"
         /\ Len(RequestsOf(calls[i].events)) = 1
         /\ WritesOf(calls[i].events) = <<>>
         /\ ~calls[i].changed
         /\ ~Exists(cache, SchoolPathsOf[calls[i].args].agg)

\* A call answered 500 on its first page, on a directory that holds page
\* entries of an earlier call.
C9_Witness ==
  /\ Len(calls) = 1
  /\ calls[1].outcome = "raise"
  /\ RequestsOf(calls[1].events)[1].resp.status = 500
  /\ DOMAIN cache # {}

(***************************************************************************)
(* services/listings.py: write_listings_to_csv                             *)
(***************************************************************************)
\* item.get("MainFeatures", {}).get(name)
MainFeature(item, name) ==
  DictGet(DictGet(item, "MainFeatures", PyDict(<<>>)), name, PyNone)

\* The row written for one listing.
CsvRow(item) ==
  [ListingId |-> DictGet(item, "ListingId", PyNone),
   Cash |-> DictGet(item, "CashFormat", PyNone),
   Price |-> DictGet(item, "PriceHtml", PyNone),
   Location |-> DictGet(item, "Location", PyNone),
   Content |-> DictGet(item, "Content", PyNone),
   Rate |-> MainFeature(item, "Rate"),
   Payment |-> MainFeature(item, "PaymentFormat"),
   EstimatedPayment |-> MainFeature(item, "EstimatedPayFormat"),
   DetailsLink |-> DictGet(item, "DetailsLink", PyNone),
   PhotoLink |-> DictGet(item, "PhotoLink", PyNone)]

\* No file written.
NoFile == [saved |-> FALSE]

\* The CSV file: one row for each listing, in order.
write_listings_to_csv(listings) ==
  [saved |-> TRUE, rows |-> [i \in 1..Len(listings) |-> CsvRow(listings[i])]]

(***************************************************************************)
(* Python str: the strings that the normalizer takes apart, each with its  *)
(* characters                                                              *)
(***************************************************************************)
StrTable ==
  <<
    <<"",
      <<>> >>,
    <<"$300,000",
      <<"$", "3", "0", "0", ",", "0", "0", "0">> >>,
    <<"$299,999",
      <<"$", "2", "9", "9", ",", "9", "9", "9">> >>,
    <<"$200,000",
      <<"$", "2", "0", "0", ",", "0", "0", "0">> >>,
    <<"$199,999",
      <<"$", "1", "9", "9", ",", "9", "9", "9">> >>,
    <<"$100,000",
      <<"$", "1", "0", "0", ",", "0", "0", "0">> >>,
    <<"$99,999",
      <<"$", "9", "9", ",", "9", "9", "9">> >>,
    <<"$1",
      <<"$", "1">> >>,
    <<"$0",
      <<"$", "0">> >>,
    <<"N/A",
      <<"N", "/", "A">> >>,
    <<"$1,234.56",
      <<"$", "1", ",", "2", "3", "4", ".", "5", "6">> >>,
    <<" 150000 ",
      <<" ", "1", "5", "0", "0", "0", "0", " ">> >>,
    <<"-5",
      <<"-", "5">> >>,
    <<"$",
      <<"$">> >>,
    <<".",
      <<".">> >>,
    <<"12 34",
      <<"1", "2", " ", "3", "4">> >>,
    <<"https://img.test/p/12345_a.jpg",
      <<"h", "t", "t", "p", "s", ":", "/", "/", "i", "m", "g", ".", "t", "e", "s", "t", "/", "p", "/", "1", "2", "3", "4", "5", "_", "a", ".", "j", "p", "g">> >>,
    <<"https://img.test/p/",
      <<"h", "t", "t", "p", "s", ":", "/", "/", "i", "m", "g", ".", "t", "e", "s", "t", "/", "p", "/">> >>,
    <<"https://img.test/p/_a.jpg",
      <<"h", "t", "t", "p", "s", ":", "/", "/", "i", "m", "g", ".", "t", "e", "s", "t", "/", "p", "/", "_", "a", ".", "j", "p", "g">> >>,
    <<"12345.jpg",
      <<"1", "2", "3", "4", "5", ".", "j", "p", "g">> >>,
    <<"12 Main St",
      <<"1", "2", " ", "M", "a", "i", "n", " ", "S", "t">> >>,
    <<"public",
      <<"p", "u", "b", "l", "i", "c">> >>,
    <<"Private",
      <<"P", "r", "i", "v", "a", "t", "e">> >>,
    <<" CHARTER ",
      <<" ", "C", "H", "A", "R", "T", "E", "R", " ">> >>,
    <<"district",
      <<"d", "i", "s", "t", "r", "i", "c", "t">> >>,
    <<"Magnet",
      <<"M", "a", "g", "n", "e", "t">> >>,
    <<"religious",
      <<"r", "e", "l", "i", "g", "i", "o", "u", "s">> >>,
    <<"parochial",
      <<"p", "a", "r", "o", "c", "h", "i", "a", "l">> >>,
    <<"montessori",
      <<"m", "o", "n", "t", "e", "s", "s", "o", "r", "i">> >>,
    <<"None",
      <<"N", "o", "n", "e">> >>
  >>

CharsOf ==
  [s \in {StrTable[i][1] : i \in 1..Len(StrTable)} |->
     StrTable[CHOOSE i \in 1..Len(StrTable) : StrTable[i][1] = s][2]]

\* "".join(chars)
RECURSIVE Join(_)
Join(chars) == IF chars = <<>> THEN "" ELSE Head(chars) \o Join(Tail(chars))

\* The upper case letters of the model's strings and their lower case.
UpperCase == <<"A", "C", "E", "H", "M", "N", "P", "R", "S", "T">>
LowerCase == <<"a", "c", "e", "h", "m", "n", "p", "r", "s", "t">>

\* str.lower()
LowerChar(c) ==
  IF \E i \in 1..Len(UpperCase) : UpperCase[i] = c
  THEN LowerCase[CHOOSE i \in 1..Len(UpperCase) : UpperCase[i] = c]
  ELSE c

Lower(chars) == [i \in 1..Len(chars) |-> LowerChar(chars[i])]

\* str.replace(old, "") for a one-character old.
Remove(chars, old) == SelectSeq(chars, LAMBDA c : c # old)

\* str.replace(old, new) for one-character old and new.
Replace(chars, old, new) ==
  [i \in 1..Len(chars) |-> IF chars[i] = old THEN new ELSE chars[i]]

\* str.strip(); the blank is the only white space of the model's strings.
RECURSIVE LStrip(_)
LStrip(chars) ==
  IF chars # <<>> /\ Head(chars) = " " THEN LStrip(Tail(chars)) ELSE chars

RECURSIVE RStrip(_)
RStrip(chars) ==
  IF chars # <<>> /\ chars[Len(chars)] = " "
  THEN RStrip(SubSeq(chars, 1, Len(chars) - 1))
  ELSE chars

Strip(chars) == RStrip(LStrip(chars))

\* str.split(sep)[0]: what stands before the first sep.
RECURSIVE FirstPart(_, _)
FirstPart(chars, sep) ==
  IF chars = <<>> \/ Head(chars) = sep THEN <<>>
  ELSE <<Head(chars)>> \o FirstPart(Tail(chars), sep)

\* What stands after the first sep; nothing when there is no sep.
AfterFirst(chars, sep) ==
  SubSeq(chars, Len(FirstPart(chars, sep)) + 2, Len(chars))

\* str.split(sep)[-1]: what stands after the last sep.
RECURSIVE LastPart(_, _)
LastPart(chars, sep) ==
  IF \E i \in 1..Len(chars) : chars[i] = sep
  THEN LastPart(AfterFirst(chars, sep), sep)
  ELSE chars

Digits == <<"0", "1", "2", "3", "4", "5", "6", "7", "8", "9">>

IsDigit(c) == \E i \in 1..Len(Digits) : Digits[i] = c

DigitOf(c) == (CHOOSE i \in 1..Len(Digits) : Digits[i] = c) - 1

\* The number that a sequence of digits writes; 0 for none.
RECURSIVE IntOfDigits(_)
IntOfDigits(ds) ==
  IF ds = <<>> THEN 0
  ELSE 10 * IntOfDigits(SubSeq(ds, 1, Len(ds) - 1)) + DigitOf(ds[Len(ds)])

\* Whether float(s) accepts the text: a sign or none, then digits with at
\* most one point among them, one digit at least.  The model's strings
\* hold no exponent, no underscore and neither "inf" nor "nan".
Unsigned(chars) ==
  IF chars # <<>> /\ Head(chars) \in {"+", "-"} THEN Tail(chars) ELSE chars

FloatAccepts(chars) ==
  /\ \A i \in 1..Len(FirstPart(Unsigned(chars), ".")) :
       IsDigit(FirstPart(Unsigned(chars), ".")[i])
  /\ \A i \in 1..Len(AfterFirst(Unsigned(chars), ".")) :
       IsDigit(AfterFirst(Unsigned(chars), ".")[i])
  /\ Len(FirstPart(Unsigned(chars), "."))
       + Len(AfterFirst(Unsigned(chars), ".")) > 0

\* int(float(s)) of a text that float accepts: the digits before the
\* point, with the sign; the fraction is cut off.
IntOfFloat(chars) ==
  (IF chars[1] = "-" THEN -1 ELSE 1)
    * IntOfDigits(FirstPart(Unsigned(chars), "."))

\* str(value) of a str or of None.
StrOf(value) ==
  IF value.k = "none" THEN CharsOf["None"] ELSE CharsOf[value.v]

(***************************************************************************)
(* services/map_builder.py                                                 *)
(***************************************************************************)
\* _price_to_category with the bounds of the ranges left out of them.
PriceToCategoryAbove(price) ==
  IF price > 300000 THEN <<"$300k+", "red">>
  ELSE IF price > 200000 THEN <<"$200k - $299k", "lightred">>
  ELSE IF price > 100000 THEN <<"$100k - $199k", "orange">>
  ELSE IF price > 0 THEN <<"Cash < $100k", "green">>
  ELSE <<"Unknown", "gray">>

\* _price_to_category: the label and the color of a price.
_price_to_category(price) ==
  IF price >= 300000 THEN <<"$300k+", "red">>
  ELSE IF price >= 200000 THEN <<"$200k - $299k", "lightred">>
  ELSE IF price >= 100000 THEN <<"$100k - $199k", "orange">>
  ELSE IF price > 0 THEN <<"Cash < $100k", "green">>
  ELSE <<"Unknown", "gray">>

\* The text _safe_int_from_money hands to float: str(value) without "$"
\* and ",", stripped.
MoneyText(value) == Strip(Remove(Remove(StrOf(value), "$"), ","))

\* _safe_int_from_money: 0 for an empty text and for one that float
\* rejects.  str(n) of an int is read back as n.
_safe_int_from_money(value) ==
  IF value.k = "int" THEN value.v
  ELSE IF MoneyText(value) = <<>> THEN 0
  ELSE IF FloatAccepts(MoneyText(value)) THEN IntOfFloat(MoneyText(value))
  ELSE 0

\* A test of the latitude alone.
HasPointLatOnly(listing) ==
  Truthy(DictGet(DictGet(listing, "Centroid", PyDict(<<>>)),
                 "latitude", PyNone))

\* _listing_to_point: no point when the latitude or the longitude is
\* missing or falsy; popup stands for the HTML rendered from the listing.
HasPoint(listing) ==
  /\ Truthy(DictGet(DictGet(listing, "Centroid", PyDict(<<>>)),
                    "latitude", PyNone))
  /\ Truthy(DictGet(DictGet(listing, "Centroid", PyDict(<<>>)),
                    "longitude", PyNone))

\* zpid of _listing_to_point: the last segment of the photo link up to
\* its first "_"; "" stands for None too, both being falsy.  A photo
\* link that is no str has no split, which the except clause turns into
\* None.
Zpid(photo_link) ==
  IF ~Truthy(photo_link) \/ photo_link.k # "str" THEN ""
  ELSE Join(FirstPart(LastPart(CharsOf[photo_link.v], "/"), "_"))

\* zillow_suffix of _listing_to_point.
ZillowSuffix(zpid) == IF zpid # "" THEN "/" \o zpid \o "_zpid/" ELSE "/"

\* zillow_link of _listing_to_point.
ZillowLink(listing) ==
  "https://www.zillow.com/homedetails/"
    \o Join(Lower(Replace(
          CharsOf[DictGet(listing, "Location", PyStr("")).v], " ", "-")))
    \o ZillowSuffix(Zpid(DictGet(listing, "PhotoLink", PyStr(""))))

\* float(x) of an int or a float, in tenths.
FloatOf(x) == IF x.k = "int" THEN 10 * x.v ELSE x.v

\* A point whose popup has no anchor when the listing gives no zpid.
ListingToPointUnlinked(listing) ==
  [lat |-> FloatOf(DictGet(DictGet(listing, "Centroid", PyDict(<<>>)),
                           "latitude", PyNone)),
   lon |-> FloatOf(DictGet(DictGet(listing, "Centroid", PyDict(<<>>)),
                           "longitude", PyNone)),
   popup |-> [listing |-> listing,
              href |-> IF Zpid(DictGet(listing, "PhotoLink", PyStr(""))) = ""
                       THEN "" ELSE ZillowLink(listing)],
   color |-> _price_to_category(
               _safe_int_from_money(
                 DictGet(listing, "CashFormat", PyStr(""))))[2],
   group |-> _price_to_category(
               _safe_int_from_money(
                 DictGet(listing, "CashFormat", PyStr(""))))[1]]

\* The MapPoint of a listing that has one; popup is the HTML rendered
\* from the listing, with the href of its "View on Zillow" anchor.
_listing_to_point(listing) ==
  [lat |-> FloatOf(DictGet(DictGet(listing, "Centroid", PyDict(<<>>)),
                           "latitude", PyNone)),
   lon |-> FloatOf(DictGet(DictGet(listing, "Centroid", PyDict(<<>>)),
                           "longitude", PyNone)),
   popup |-> [listing |-> listing, href |-> ZillowLink(listing)],
   color |-> _price_to_category(
               _safe_int_from_money(
                 DictGet(listing, "CashFormat", PyStr(""))))[2],
   group |-> _price_to_category(
               _safe_int_from_money(
                 DictGet(listing, "CashFormat", PyStr(""))))[1]]

\* The exception that leaves _listing_to_point, "" for none: a Centroid
\* that is no mapping has no get; past the test of the coordinates, a
\* Location that is no str has no replace and MainFeatures that are no
\* mapping have no get.  The coordinates of the model are numbers or
\* null, which float takes.
ListingToPointError(listing) ==
  IF DictGet(listing, "Centroid", PyDict(<<>>)).k # "dict"
  THEN "AttributeError"
  ELSE IF ~HasPoint(listing) THEN ""
  ELSE IF DictGet(listing, "Location", PyStr("")).k # "str"
  THEN "AttributeError"
  ELSE IF DictGet(listing, "MainFeatures", PyDict(<<>>)).k # "dict"
  THEN "AttributeError"
  ELSE ""

\* How a call of _listing_to_point ends: it raises, returns None, or
\* returns the point.
ListingToPointCall(listing) ==
  IF ListingToPointError(listing) # ""
  THEN [outcome |-> "raise", value |-> PyNone,
        error |-> ListingToPointError(listing)]
  ELSE IF ~HasPoint(listing)
  THEN [outcome |-> "return", value |-> PyNone, error |-> ""]
  ELSE [outcome |-> "return", value |-> _listing_to_point(listing),
        error |-> ""]

\* The points of the listings of one page, the listings without a point
\* skipped.
RECURSIVE PointsOfListings(_)
PointsOfListings(listings) ==
  IF listings = <<>> THEN <<>>
  ELSE (IF HasPoint(Head(listings))
        THEN <<_listing_to_point(Head(listings))>> ELSE <<>>)
         \o PointsOfListings(Tail(listings))

\* The points of one cache file; a file that cannot be loaded is skipped.
PointsOfFile(data) ==
  IF data.k = "error" THEN <<>>
  ELSE PointsOfListings(
         DictGet(DictGet(DictGet(data, "response", PyDict(<<>>)),
                         "MapList", PyDict(<<>>)),
                 "ListingsSummaryVM", PyList(<<>>)).v)

\* cache.glob("page_*.json"), sorted: the files of the page namespace in
\* the order of their names, which is the order of their keys; the i-th
\* is the one named after the i-th digest of Md5Table.
PagePaths == [i \in 1..Len(Md5Table) |-> path_for("page", Md5Table[i][2])]

\* The page files of the first token alone.
PageFilesOfFirstToken(dir) == {i \in DOMAIN PagePaths : PagePaths[i] \in DOMAIN dir /\ \E page \in 1..(MaxPages + 1) : PagePaths[i] = ListingFileOf[page, "tokA"]}

PageFiles(dir) == {i \in DOMAIN PagePaths : PagePaths[i] \in DOMAIN dir}

\* The files read from the last name to the first.
RECURSIVE PointsOfFilesDescending(_, _)
PointsOfFilesDescending(dir, files) ==
  IF files = {} THEN <<>>
  ELSE PointsOfFile(JsonLoads(
         dir[PagePaths[CHOOSE i \in files : \A j \in files : i >= j]]))
         \o PointsOfFilesDescending(dir,
              files \ {CHOOSE i \in files : \A j \in files : i >= j})

RECURSIVE PointsOfFiles(_, _)
PointsOfFiles(dir, files) ==
  IF files = {} THEN <<>>
  ELSE PointsOfFile(JsonLoads(
         dir[PagePaths[CHOOSE i \in files : \A j \in files : i <= j]]))
         \o PointsOfFiles(dir,
              files \ {CHOOSE i \in files : \A j \in files : i <= j})

_load_points_from_cache(dir) == PointsOfFiles(dir, PageFiles(dir))

\* Whether _load_points_from_cache raises: a listing of a page file that
\* loads makes _listing_to_point raise, and nothing catches it.
LoadPointsRaises(dir) ==
  \E i \in PageFiles(dir) :
    \E data \in {JsonLoads(dir[PagePaths[i]])} :
      /\ data.k # "error"
      /\ \E j \in 1..Len(DictGet(DictGet(DictGet(data, "response",
                                                  PyDict(<<>>)),
                                          "MapList", PyDict(<<>>)),
                                  "ListingsSummaryVM", PyList(<<>>)).v) :
           ListingToPointError(
             DictGet(DictGet(DictGet(data, "response", PyDict(<<>>)),
                             "MapList", PyDict(<<>>)),
                     "ListingsSummaryVM", PyList(<<>>)).v[j]) # ""

\* How a call of _load_points_from_cache ends.
LoadPointsCall(dir) ==
  IF LoadPointsRaises(dir)
  THEN [outcome |-> "raise", value |-> <<>>, error |-> "AttributeError"]
  ELSE [outcome |-> "return", value |-> _load_points_from_cache(dir),
        error |-> ""]

\* a or b: a when it is truthy, else b.
PyOr(a, b) == IF Truthy(a) THEN a ELSE b

\* st_raw of _normalize_school_type.
SchoolTypeRaw(school) ==
  PyOr(DictGet(school, "schoolType", PyNone),
       PyOr(DictGet(school, "school_type", PyNone),
            DictGet(school, "type", PyNone)))

\* The label _normalize_school_type reads from st_raw, "" for None.
ExplicitLabel(st_raw) ==
  IF st_raw.k # "str" THEN ""
  ELSE IF Join(Lower(Strip(CharsOf[st_raw.v])))
            \in {"public", "private", "charter"}
  THEN Join(Lower(Strip(CharsOf[st_raw.v])))
  ELSE IF Join(Lower(Strip(CharsOf[st_raw.v]))) \in {"district", "magnet"}
  THEN "public"
  ELSE IF Join(Lower(Strip(CharsOf[st_raw.v])))
            \in {"religious", "parochial"}
  THEN "private"
  ELSE ""

\* _normalize_school_type with the hints looked at in the other order.
NormalizeSchoolTypeCharterFirst(school) ==
  IF ExplicitLabel(SchoolTypeRaw(school)) # ""
  THEN ExplicitLabel(SchoolTypeRaw(school))
  ELSE IF DictGet(school, "isCharter", PyNone) = PyBool(TRUE) THEN "charter"
  ELSE IF DictGet(school, "isPrivate", PyNone) = PyBool(TRUE) THEN "private"
  ELSE "public"

\* _normalize_school_type: the explicit label, else the hints, else
\* "public"; `is True` holds of the bool True only.
_normalize_school_type(school) ==
  IF ExplicitLabel(SchoolTypeRaw(school)) # ""
  THEN ExplicitLabel(SchoolTypeRaw(school))
  ELSE IF DictGet(school, "isPrivate", PyNone) = PyBool(TRUE) THEN "private"
  ELSE IF DictGet(school, "isCharter", PyNone) = PyBool(TRUE) THEN "charter"
  ELSE "public"

\* A school marker for every school with a lat and a lon.
RECURSIVE SchoolMarkers(_)
SchoolMarkers(schools) ==
  IF schools = <<>> THEN <<>>
  ELSE (IF DictGet(Head(schools), "lat", PyNone) = PyNone
             \/ DictGet(Head(schools), "lon", PyNone) = PyNone
        THEN <<>>
        ELSE <<[lat |-> DictGet(Head(schools), "lat", PyNone).v,
                lon |-> DictGet(Head(schools), "lon", PyNone).v,
                popup |-> Head(schools)]>>)
         \o SchoolMarkers(Tail(schools))

\* The map without a "Schools" group, and with one.
NoLayer == [group |-> FALSE]
Layer(markers) == [group |-> TRUE, markers |-> markers]

\* No fetch_schools call made.
NoCall == [fn |-> "none"]

\* _add_schools_layer once fetch_schools ended as call: an exception is
\* logged and the layer is left out.
SchoolsLayer(call) ==
  IF call.outcome = "raise" \/ call.value.k # "dict" THEN NoLayer
  ELSE Layer(SchoolMarkers(ItemsOf(call.value)))

\* m.save(output_file) of generate_map_from_cache.
SavedMap(points, layer) ==
  [saved |-> TRUE, center |-> <<points[1].lat, points[1].lon>>,
   points |-> points, schools |-> layer]

(***************************************************************************)
(* cli.py: main                                                            *)
(***************************************************************************)
\* The runs the model starts on one directory.
MaxRuns == 2

\* The command lines: --map and --no-schools.
RunArgs ==
  {[map |-> FALSE, no_schools |-> FALSE],
   [map |-> TRUE, no_schools |-> FALSE],
   [map |-> TRUE, no_schools |-> TRUE]}

\* The cookies main builds from the environment.
EnvCookies == "session1"

\* What the listing server answers to a run.
RunItemLists == {<<>>, <<ListingB, ListingA>>, <<ListingZ>>}
RunResponses ==
  {Response(200, ListingBody(total, items)) :
     total \in 1..MaxPages, items \in RunItemLists} \cup FailedResponses

\* What the school server answers to a run.
RunSchoolResponses(url, page_no) ==
  SchoolResponsesOf({<<SchoolB, SchoolA>>},
                    {Response(500, PyNone), TransportError}, url, page_no)

\* first_response.get("SearchPagerBar", {}).get("TotalPages", 1)
TotalPagesOf(first_response) ==
  DictGet(DictGet(first_response, "SearchPagerBar", PyDict(<<>>)),
          "TotalPages", PyInt(1)).v

\* response.get("MapList", {}).get("ListingsSummaryVM", [])
SummariesOf(response) ==
  DictGet(DictGet(response, "MapList", PyDict(<<>>)),
          "ListingsSummaryVM", PyList(<<>>)).v

\* range(2, total_pages)
PageRangeShort(total_pages) == 2..(total_pages - 1)

\* range(2, total_pages + 1)
PageRange(total_pages) == 2..total_pages

\* items put in front of the listings collected so far.
ExtendFront(all_listings, items) == items \o all_listings

\* all_listings.extend(items)
Extend(all_listings, items) == all_listings \o items

\* main at its start: nothing fetched, nothing written.
NewRun(n, token, args) ==
  [pc |-> "pages", n |-> n, token |-> token, args |-> args,
   total_pages |-> 0, page |-> 1, all_listings |-> <<>>, fetched |-> <<>>,
   csv |-> NoFile, map |-> NoFile, points |-> <<>>, school_call |-> NoCall,
   error |-> ""]

\* main returns.
RunDone(r) == [r EXCEPT !.pc = "done"]

\* An error of a page fetch caught: main writes what it has and returns.
RunAbortSwallowed(r, error) ==
  [r EXCEPT !.pc = "done", !.csv = write_listings_to_csv(r.all_listings)]

\* An exception leaves main: nothing catches it.
RunAbort(r, error) == [r EXCEPT !.pc = "aborted", !.error = error]

\* The run's record of one fetch_listing_page call and how it ended.
Fetched(r, cached, resp, res) ==
  [r EXCEPT !.fetched = Append(@,
     [page |-> r.page, cached |-> cached, status |-> resp.status,
      requests |-> Len(res.requests), outcome |-> res.outcome,
      value |-> res.value, error |-> res.error])]

\* The statements after a fetch_listing_page call that returned value.
Collect(r, value) ==
  IF r.page = 1
  THEN [r EXCEPT !.total_pages = TotalPagesOf(value),
                 !.all_listings = SummariesOf(value)]
  ELSE [r EXCEPT !.all_listings = Extend(@, SummariesOf(value))]

\* generate_map_from_cache with no try around the fetch_schools call: the
\* exception leaves _add_schools_layer, generate_map_from_cache and main.
MapBuiltWithoutExcept(r, call) ==
  IF call.outcome = "raise"
  THEN RunAbort([r EXCEPT !.school_call = call], call.error)
  ELSE [r EXCEPT !.pc = "done", !.school_call = call,
                 !.map = SavedMap(r.points, SchoolsLayer(call))]

\* generate_map_from_cache with "except RuntimeError" around the
\* fetch_schools call: any other exception leaves it and main.
MapBuiltCatchesRuntimeError(r, call) ==
  IF call.outcome = "raise" /\ call.error # "RuntimeError"
  THEN RunAbort([r EXCEPT !.school_call = call], call.error)
  ELSE [r EXCEPT !.pc = "done", !.school_call = call,
                 !.map = SavedMap(r.points, SchoolsLayer(call))]

\* generate_map_from_cache from the end of the fetch_schools call on.
MapBuilt(r, call) ==
  [r EXCEPT !.pc = "done", !.school_call = call,
            !.map = SavedMap(r.points, SchoolsLayer(call))]

\* generate_map_from_cache asking for the schools around the last point.
GenerateMapAroundLastPoint(dir, r, points) ==
  IF points = <<>>
  THEN cache' = dir /\ run' = RunDone(r) /\ fs' = [pc |-> "idle"]
  ELSE IF r.args.no_schools
  THEN /\ cache' = dir
       /\ run' = [RunDone(r) EXCEPT !.points = points,
                                    !.map = SavedMap(points, NoLayer)]
       /\ fs' = [pc |-> "idle"]
  ELSE \E args \in {<<points[Len(points)].lat, points[Len(points)].lon,
                      DefaultDistance, DefaultState>>} :
       \E cached \in {read_json(dir, SchoolPathsOf[args].agg)} :
       \E resp \in Answers(SchoolsAsks(cached),
                           RunSchoolResponses(BASE_URL, 1)) :
       \E s \in {fetch_schools(dir, args, cached, resp)} :
          /\ cache' = s.dir
          /\ IF s.frame.pc = "follow"
             THEN /\ run' = [r EXCEPT !.pc = "schools", !.points = points]
                  /\ fs' = s.frame
             ELSE /\ run' = MapBuilt([r EXCEPT !.points = points], s.frame)
                  /\ fs' = [pc |-> "idle"]

\* generate_map_from_cache(gs_client=gs_client) on directory dir, up to
\* the answer to the first request of fetch_schools.
generate_map_from_cache(dir, r, points) ==
  IF points = <<>>
  THEN cache' = dir /\ run' = RunDone(r) /\ fs' = [pc |-> "idle"]
  ELSE IF r.args.no_schools
  THEN /\ cache' = dir
       /\ run' = [RunDone(r) EXCEPT !.points = points,
                                    !.map = SavedMap(points, NoLayer)]
       /\ fs' = [pc |-> "idle"]
  ELSE \E args \in {<<points[1].lat, points[1].lon,
                      DefaultDistance, DefaultState>>} :
       \E cached \in {read_json(dir, SchoolPathsOf[args].agg)} :
       \E resp \in Answers(SchoolsAsks(cached),
                           RunSchoolResponses(BASE_URL, 1)) :
       \E s \in {fetch_schools(dir, args, cached, resp)} :
          /\ cache' = s.dir
          /\ IF s.frame.pc = "follow"
             THEN /\ run' = [r EXCEPT !.pc = "schools", !.points = points]
                  /\ fs' = s.frame
             ELSE /\ run' = MapBuilt([r EXCEPT !.points = points], s.frame)
                  /\ fs' = [pc |-> "idle"]

\* main without its test of an empty all_listings.
AfterPagesWritesAlways(dir, r) ==
  IF ~r.args.map \/ r.all_listings = <<>>
  THEN /\ cache' = dir
       /\ run' = RunDone([r EXCEPT !.csv = write_listings_to_csv(r.all_listings)])
       /\ fs' = [pc |-> "idle"]
  ELSE generate_map_from_cache(dir,
         [r EXCEPT !.csv = write_listings_to_csv(r.all_listings)],
         _load_points_from_cache(dir))

\* main after its pagination loop.
AfterPages(dir, r) ==
  IF r.all_listings = <<>>
  THEN cache' = dir /\ run' = RunDone(r) /\ fs' = [pc |-> "idle"]
  ELSE IF ~r.args.map
  THEN /\ cache' = dir
       /\ run' = RunDone([r EXCEPT !.csv = write_listings_to_csv(r.all_listings)])
       /\ fs' = [pc |-> "idle"]
  ELSE generate_map_from_cache(dir,
         [r EXCEPT !.csv = write_listings_to_csv(r.all_listings)],
         _load_points_from_cache(dir))

\* One fetch_listing_page call of main, for page r.page, and what main
\* does until its next call or its end.
FetchPage(r) ==
  \E resp \in Answers(~ListingCached(cache, r.page, r.token), RunResponses) :
  \E res \in {fetch_listing_page(cache, r.page, r.token, EnvCookies, resp)} :
     IF res.outcome = "raise"
     THEN /\ cache' = res.dir
          /\ run' = RunAbort(Fetched(r, ListingCached(cache, r.page, r.token),
                                     resp, res), res.error)
          /\ fs' = [pc |-> "idle"]
     ELSE \E r2 \in {Collect(Fetched(r, ListingCached(cache, r.page, r.token),
                                     resp, res), res.value)} :
          IF r2.page + 1 \in PageRange(r2.total_pages)
          THEN /\ cache' = res.dir
               /\ run' = [r2 EXCEPT !.page = @ + 1]
               /\ fs' = [pc |-> "idle"]
          ELSE AfterPages(res.dir, r2)

Init ==
  /\ cache = <<>>
  /\ calls = <<>>
  /\ fs = IdleCall
  /\ run = IdleRun
  /\ objA = PyNone /\ objB = PyNone /\ keyA = "" /\ keyB = ""

\* main is started and fetches page 1.
StartRun ==
  /\ run.pc \in {"idle", "done", "aborted"}
  /\ run.n < MaxRuns
  /\ \E token \in Tokens, args \in RunArgs :
        FetchPage(NewRun(run.n + 1, token, args))
  /\ UNCHANGED <<calls, keyVars>>

\* The loop of main fetches its next page.
FetchNextPage ==
  /\ run.pc = "pages"
  /\ FetchPage(run)
  /\ UNCHANGED <<calls, keyVars>>

\* The fetch_schools call of the map build gets the answer to its
\* follow-up request.
FollowSchoolPage ==
  /\ run.pc = "schools"
  /\ \E resp \in RunSchoolResponses(fs.next_link, fs.page_no + 1) :
     \E s \in {SchoolsFollow(cache, fs, resp)} :
        /\ cache' = s.dir
        /\ IF s.frame.pc = "follow"
           THEN fs' = s.frame /\ run' = run
           ELSE fs' = IdleCall /\ run' = MapBuilt(run, s.frame)
  /\ UNCHANGED <<calls, keyVars>>

Next == StartRun \/ FetchNextPage \/ FollowSchoolPage

Spec == Init /\ [][Next]_vars

\* The pagination loop of the run is over: main went on, or returned.
PaginationOver == run.pc \in {"done", "schools"}

\* The page count that the body of page 1 reports.
ReportedTotal(value) ==
  CHOOSE n \in 1..(MaxPages + 1) :
    \E items \in RunItemLists : value = ListingBody(n, items)

\* The listings that the body of a page holds.
ReportedItems(value) ==
  CHOOSE items \in RunItemLists :
    \E n \in 1..(MaxPages + 1) : value = ListingBody(n, items)

\* C4: in a run whose page fetches all succeed, main calls
\* fetch_listing_page exactly N times, N the TotalPages that page 1
\* reports, for the pages 1, 2, ..., N in this order, whatever the number
\* of items of the pages; while the loop runs, the calls made so far are
\* those of pages 1, 2, ... and the next page is at most N.
C4_PaginationCompleteness ==
  /\ PaginationOver
       => /\ Len(run.fetched) = ReportedTotal(run.fetched[1].value)
          /\ \A i \in 1..Len(run.fetched) :
                run.fetched[i].page = i /\ run.fetched[i].outcome = "return"
  /\ run.pc = "pages"
       => /\ \A i \in 1..Len(run.fetched) : run.fetched[i].page = i
          /\ run.page = Len(run.fetched) + 1
          /\ run.page <= ReportedTotal(run.fetched[1].value)

\* A run that fetched page 2 although page 1 held no listing.
C4_Witness ==
  /\ run.pc = "done"
  /\ Len(run.fetched) = 2
  /\ ReportedItems(run.fetched[1].value) = <<>>
  /\ ReportedItems(run.fetched[2].value) # <<>>

\* The listings of the pages fetched, page after page.
RECURSIVE ListingsServed(_, _)
ListingsServed(fetched, n) ==
  IF n = 0 THEN <<>>
  ELSE ListingsServed(fetched, n - 1) \o ReportedItems(fetched[n].value)

\* C5: when the pagination loop of main is over, all_listings is the
\* concatenation of the item lists of the pages 1..N in ascending page
\* order, each page's items in their order, none dropped or repeated.
C5_ListingMergeOrder ==
  PaginationOver
    => run.all_listings = ListingsServed(run.fetched, Len(run.fetched))

\* A run that merged the two listings of page 1 and the one of page 2.
C5_Witness ==
  /\ PaginationOver
  /\ Len(run.fetched) = 2
  /\ run.all_listings = <<ListingB, ListingA, ListingZ>>

\* The last fetch of the run was for a page >= 2 and the server answered
\* it with a status other than 200.
SecondaryPageFailed ==
  /\ run.pc \in {"done", "aborted", "schools"}
  /\ Len(run.fetched) >= 2
  /\ ~run.fetched[Len(run.fetched)].cached
  /\ run.fetched[Len(run.fetched)].status # 200

\* C7 as the spec states it: when the fetch of a page >= 2 fails with a
\* failure status, the run does not abort and the listings of the earlier
\* pages are written to the CSV.
C7_SecondaryFailureNonFatal ==
  SecondaryPageFailed
    => /\ run.pc # "aborted"
       /\ run.csv = write_listings_to_csv(
            ListingsServed(run.fetched, Len(run.fetched) - 1))

\* C7, amended: when the fetch of a page >= 2 fails with a failure
\* status, fetch_listing_page raises RuntimeError after one request and
\* main aborts with it: no CSV and no map are written, fetch_schools is
\* not called, and the pages fetched before stay in the cache.
C7_SecondaryFailureAborts ==
  SecondaryPageFailed
    => /\ run.pc = "aborted"
       /\ run.error = "RuntimeError"
       /\ run.fetched[Len(run.fetched)].requests = 1
       /\ run.csv = NoFile
       /\ run.map = NoFile
       /\ run.school_call = NoCall
       /\ \A i \in 1..(Len(run.fetched) - 1) :
             ListingCached(cache, i, run.token)

\* A run with --map that collected two listings from page 1 and whose
\* page 2 was answered with status 500.
C7_Witness ==
  /\ SecondaryPageFailed
  /\ run.args.map
  /\ run.fetched[2].status = 500
  /\ run.all_listings = <<ListingB, ListingA>>

\* The map build of the run called fetch_schools, which missed the
\* aggregate and got a failure status for its first page.
SchoolFirstPageFailed ==
  /\ run.pc \in {"done", "aborted"}
  /\ run.school_call # NoCall
  /\ ~run.school_call.cached
  /\ Len(RequestsOf(run.school_call.events)) >= 1
  /\ FailureStatus(RequestsOf(run.school_call.events)[1].resp)

\* C10 as the spec states it: when the first school page is answered
\* with a failure status during a map build, the run ends with an error
\* and no map is written.
C10_SchoolFailureAbortsRun ==
  SchoolFirstPageFailed => run.pc = "aborted" /\ run.map = NoFile

\* C10, amended: when the first school page is answered with a failure
\* status during a map build, fetch_schools raises after that one
\* request, _add_schools_layer catches the error, and the run ends
\* normally: the CSV is written and the map is saved with every property
\* point and without a schools group.
C10_SchoolFailureKeepsMap ==
  SchoolFirstPageFailed
    => /\ run.pc = "done"
       /\ run.error = ""
       /\ run.school_call.outcome = "raise"
       /\ Len(RequestsOf(run.school_call.events)) = 1
       /\ run.csv = write_listings_to_csv(run.all_listings)
       /\ run.points # <<>>
       /\ run.map = SavedMap(run.points, NoLayer)

\* A run whose school request was answered with status 500 and whose map
\* holds the points of two listings.
C10_Witness ==
  /\ SchoolFirstPageFailed
  /\ RequestsOf(run.school_call.events)[1].resp.status = 500
  /\ Len(run.map.points) = 2

\* C11: whenever the fetch_schools call of a map build raises (a failure
\* status on the first page, or an exception of the transport on any
\* request), the run ends normally: no error reaches main, and the map is
\* saved with every property point of the cache and without a schools
\* group.
C11_SchoolFailureDegrades ==
  (/\ run.pc # "idle"
   /\ run.school_call # NoCall
   /\ run.school_call.outcome = "raise")
    => /\ run.pc = "done"
       /\ run.error = ""
       /\ run.points # <<>>
       /\ run.points = _load_points_from_cache(cache)
       /\ run.map = SavedMap(run.points, NoLayer)

\* A map build whose second school request ended in an exception of the
\* transport, after a first page that linked to it.
C11_Witness ==
  /\ run.pc = "done"
  /\ run.school_call # NoCall
  /\ run.school_call.outcome = "raise"
  /\ run.school_call.error = "RequestsError"
  /\ Len(RequestsOf(run.school_call.events)) = 2
  /\ run.map # NoFile

\* The "response" field of the envelope in the file at path.
ResponseAt(dir, path) == DictGet(JsonLoads(dir[path]), "response", PyNone)

\* C12: a fetch_schools call made when the aggregate entry of its
\* parameter set exists returns the response of that entry, issues no
\* request and writes nothing: its trace is empty and the directory is as
\* it was.
C12_AggregateShortCircuit ==
  \A i \in 1..Len(calls) :
    (calls[i].fn = "fetch_schools" /\ calls[i].existed)
      => /\ calls[i].outcome = "return"
         /\ calls[i].events = <<>>
         /\ ~calls[i].changed
         /\ calls[i].value
              = ResponseAt(cache, SchoolPathsOf[calls[i].args].agg)

\* A call answered from an aggregate that holds the three schools of two
\* pages.
C12_Witness ==
  /\ Len(calls) = 1
  /\ calls[1].fn = "fetch_schools"
  /\ calls[1].existed
  /\ calls[1].events = <<>>
  /\ DictGet(calls[1].value, "items", PyNone)
       = PyList(<<SchoolA, SchoolB, SchoolA>>)

\* The aggregate entry of every parameter set that has one stays, with
\* its content, in the step.
AggregatesKept ==
  \A args \in SchoolArgs :
    Exists(cache, SchoolPathsOf[args].agg)
      => /\ Exists(cache', SchoolPathsOf[args].agg)
         /\ cache'[SchoolPathsOf[args].agg] = cache[SchoolPathsOf[args].agg]

\* C13: when a fetch_schools call that found no aggregate entry returns,
\* after the last link or after a failed follow-up page, the aggregate
\* entry of its parameters exists and its response is the value returned;
\* and no later step changes or removes an aggregate entry, so that a
\* later call with the same parameters finds it (and, by C12, returns it
\* without a request).
C13_AggregateWriteThrough ==
  /\ [](\A i \in 1..Len(calls) :
          (/\ calls[i].fn = "fetch_schools"
           /\ ~calls[i].existed
           /\ calls[i].outcome = "return")
            => /\ Exists(cache, SchoolPathsOf[calls[i].args].agg)
               /\ ResponseAt(cache, SchoolPathsOf[calls[i].args].agg)
                    = calls[i].value)
  /\ [][AggregatesKept]_vars

\* A call that missed the aggregate, got 204 for its second page, and
\* returned the partial result that is now in the aggregate entry.
C13_Witness ==
  /\ Len(calls) = 1
  /\ calls[1].fn = "fetch_schools"
  /\ ~calls[1].existed
  /\ calls[1].outcome = "return"
  /\ Len(RequestsOf(calls[1].events)) = 2
  /\ RequestsOf(calls[1].events)[2].resp.status = 204
  /\ Exists(cache, SchoolPathsOf[calls[1].args].agg)

\* The requests of a trace that were answered with status 200.
PagesFetched(events) ==
  SelectSeq(RequestsOf(events), LAMBDA e : e.resp.status = 200)

\* C14: the items that a fetch_schools call returns after a miss are the
\* item lists of the pages it fetched with success, the first page and
\* then each follow-up page in the order the links were followed, each
\* list in its order, one after the other.
C14_SchoolMergeOrder ==
  \A i \in 1..Len(calls) :
    (/\ calls[i].fn = "fetch_schools"
     /\ ~calls[i].existed
     /\ calls[i].outcome = "return")
      => DictGet(calls[i].value, "items", PyNone)
           = PyList(ItemsServed(PagesFetched(calls[i].events),
                                Len(PagesFetched(calls[i].events))))

\* A call that merged three pages of two, one and two schools.
C14_Witness ==
  /\ Len(calls) = 1
  /\ calls[1].fn = "fetch_schools"
  /\ Len(PagesFetched(calls[1].events)) = 3
  /\ DictGet(calls[1].value, "items", PyNone)
       = PyList(<<SchoolB, SchoolA, SchoolA, SchoolB, SchoolA>>)

\* The request of a trace whose answer is a page without a next link.
LinkEnds(req) == req.resp.status = 200 /\ NextLink(req.resp.json) = NoLink

\* The request of a trace whose answer is a page with a next link.
LinkGoesOn(req) == req.resp.status = 200 /\ NextLink(req.resp.json) # NoLink

\* C15: school pagination ends when the links are exhausted.  A call in
\* progress has only seen pages with a next link; in a call that ended,
\* a page without a next link is the answer to the last request, after
\* which the call returned, and a page with a next link is never the
\* answer to the last request.  Under a server whose chain of links is
\* no longer than MaxSchoolPages, a call in progress ends: it returns,
\* unless its last request raised a transport exception.
C15_LinkExhaustionTerminates ==
  /\ [](fs.pc = "follow"
          => \A j \in 1..Len(RequestsOf(fs.events)) :
               LinkGoesOn(RequestsOf(fs.events)[j]))
  /\ [](\A i \in 1..Len(calls) :
          calls[i].fn = "fetch_schools"
            => \A j \in 1..Len(RequestsOf(calls[i].events)) :
                 /\ LinkEnds(RequestsOf(calls[i].events)[j])
                      => /\ j = Len(RequestsOf(calls[i].events))
                         /\ calls[i].outcome = "return"
                 /\ LinkGoesOn(RequestsOf(calls[i].events)[j])
                      => j < Len(RequestsOf(calls[i].events)))
  /\ (fs.pc = "follow")
       ~> (/\ fs.pc = "idle"
           /\ Len(calls) = 1
           /\ \/ calls[1].outcome = "return"
              \/ RequestsOf(calls[1].events)
                   [Len(RequestsOf(calls[1].events))].resp = TransportError)

\* A call that returned after three requests: the first two pages had a
\* next link, the third had none.
C15_Witness ==
  /\ Len(calls) = 1
  /\ calls[1].fn = "fetch_schools"
  /\ calls[1].outcome = "return"
  /\ Len(RequestsOf(calls[1].events)) = 3
  /\ LinkGoesOn(RequestsOf(calls[1].events)[1])
  /\ LinkGoesOn(RequestsOf(calls[1].events)[2])
  /\ LinkEnds(RequestsOf(calls[1].events)[3])

\* Every entry of the directory is still there after the step, with the
\* content it had.
EntriesKept ==
  \A p \in DOMAIN cache : Exists(cache', p) /\ cache'[p] = cache[p]

\* C16, as the specification words it: once a cache entry exists its
\* content never changes and it is never deleted.
C16_EntriesNeverChange == [][EntriesKept]_vars

\* The locations of the raw school pages: the first page of each
\* parameter set and the page of each followed link.
SchoolPagePaths ==
  {SchoolPathsOf[args].first : args \in DOMAIN SchoolPathsOf}
    \cup {PagePathOf[url] : url \in NextUrls}

\* C16: no cache entry is ever deleted, and the content of an entry that
\* is not a raw school page (a listing page, a school aggregate) never
\* changes once the entry exists; a raw school page is written again by
\* every call that fetches it.
C16_EntriesKeptButSchoolPages ==
  [][\A p \in DOMAIN cache :
       /\ Exists(cache', p)
       /\ p \notin SchoolPagePaths => cache'[p] = cache[p]]_vars

\* The second run fetched the schools anew, two requests, over the
\* entries that the first run had left.
C16_Witness ==
  /\ run.pc = "done"
  /\ run.n = 2
  /\ run.school_call # NoCall
  /\ run.school_call.outcome = "return"
  /\ Len(RequestsOf(run.school_call.events)) = 2
  /\ \E args \in DOMAIN SchoolPathsOf :
       /\ Exists(cache, SchoolPathsOf[args].first)
       /\ Exists(cache, SchoolPathsOf[args].agg)
  /\ \E page \in 1..MaxPages, token \in Tokens :
       Exists(cache, ListingFileOf[page, token])

(***************************************************************************)
(* SpecFaults: the adapters and the cache on a disk that may fail          *)
(***************************************************************************)
\* The disk under the cache directory: in order, not writable (open(path,
\* "w") raises), or full (open truncates the file, the write raises).
Disks == {"ok", "readonly", "full"}

\* What a write that raised leaves at path: nothing new on a directory
\* that is not writable; on a full disk the truncated file, empty or with
\* the part of the text that got out.
FailedWrites(disk, dir, path, text) ==
  IF disk = "readonly" THEN {dir}
  ELSE {WriteFile(dir, path, <<>>), WriteFile(dir, path, SubSeq(text, 1, 1))}

\* write_json on the disk: open and f.write are not guarded, so an OSError
\* leaves write_json.
write_json_on(disk, dir, path, data) ==
  IF disk = "ok"
  THEN {[dir |-> write_json(dir, path, data), outcome |-> "return",
         error |-> ""]}
  ELSE {[dir |-> d, outcome |-> "raise", error |-> "OSError"] :
          d \in FailedWrites(disk, dir, path, JsonTokens(data))}

\* fetch_listing_page returning the fetched result although the write of
\* the envelope raised.
ListingWriteSwallowed(disk, dir, cache_file, r) ==
  IF disk = "ok" \/ r.dir = dir THEN {r}
  ELSE {Returned(d, r.requests, r.value) :
          d \in FailedWrites(disk, dir, cache_file, r.dir[cache_file])}

\* fetch_listing_page on the disk, r being how the call ends on a disk in
\* order: the write of the envelope is not guarded, so when it raises
\* the call raises and the fetched result is lost.
ListingOnDisk(disk, dir, cache_file, r) ==
  IF disk = "ok" \/ r.dir = dir THEN {r}
  ELSE {Raised(d, r.requests, "OSError") :
          d \in FailedWrites(disk, dir, cache_file, r.dir[cache_file])}

\* fetch_schools on the disk, r being how a call that gets one page ends
\* on a disk in order, and at the write at which the disk fails: the
\* first is the write of the first page, the second the write of the
\* aggregate.  Neither is guarded.
SchoolsOnDisk(disk, at, dir, args, r) ==
  IF disk = "ok" \/ r.dir = dir THEN {r}
  ELSE IF at = 1
  THEN {[dir |-> d,
         frame |-> Ended(args, FALSE, <<r.frame.events[1]>>, "raise",
                         PyNone, "OSError")] :
          d \in FailedWrites(disk, dir, SchoolPathsOf[args].first,
                             r.dir[SchoolPathsOf[args].first])}
  ELSE {[dir |-> d,
         frame |-> Ended(args, FALSE,
                         <<r.frame.events[1], r.frame.events[2]>>, "raise",
                         PyNone, "OSError")] :
          d \in FailedWrites(disk,
                             WriteFile(dir, SchoolPathsOf[args].first,
                                       r.dir[SchoolPathsOf[args].first]),
                             SchoolPathsOf[args].agg,
                             r.dir[SchoolPathsOf[args].agg])}

\* Whether the entry at path exists and json.load cannot read it.
Unreadable(dir, path) ==
  Exists(dir, path) /\ JsonLoads(dir[path]).k = "error"

FaultToken == "tokA"
FaultArgs == <<407, -739, DefaultDistance, DefaultState>>

\* A school server whose answers have no next link.
SinglePages ==
  {Response(200, SchoolBody(items, NoLink)) : items \in SchoolItemLists}
    \cup SchoolFailures

\* The location and the values of the direct read_json and write_json
\* calls.
SparePath == SchoolPathsOf[<<408, -739, DefaultDistance, DefaultState>>].agg
SpareValues == {PyList(<<>>), SchoolBody(<<SchoolA>>, NoLink)}

FaultInit ==
  /\ cache = <<>>
  /\ calls = <<>>
  /\ fs = IdleCall
  /\ run = IdleRun
  /\ objA = PyNone /\ objB = PyNone /\ keyA = "" /\ keyB = ""

ListingCallOnDisk ==
  \E page \in ClientPages, disk \in Disks :
    \E resp \in Answers(~ListingCached(cache, page, FaultToken),
                        ClientResponses) :
    \E r \in {fetch_listing_page(cache, page, FaultToken, EnvCookies, resp)} :
    \E q \in ListingOnDisk(disk, cache, ListingFileOf[page, FaultToken], r) :
       /\ cache' = q.dir
       /\ calls' = <<[fn |-> "fetch_listing_page",
                      unreadable |->
                        Unreadable(cache, ListingFileOf[page, FaultToken]),
                      write_failed |-> (disk # "ok" /\ r.dir # cache),
                      asked |-> Len(q.requests),
                      fetched |-> resp.json,
                      outcome |-> q.outcome, value |-> q.value,
                      error |-> q.error, changed |-> (q.dir # cache)]>>
       /\ UNCHANGED <<fs, run, keyVars>>

SchoolsCallOnDisk ==
  \E disk \in Disks, at \in 1..2 :
    \E cached \in {read_json(cache, SchoolPathsOf[FaultArgs].agg)} :
    \E resp \in Answers(SchoolsAsks(cached), SinglePages) :
    \E r \in {fetch_schools(cache, FaultArgs, cached, resp)} :
    \E q \in SchoolsOnDisk(disk, at, cache, FaultArgs, r) :
       /\ cache' = q.dir
       /\ calls' = <<[fn |-> "fetch_schools",
                      unreadable |->
                        Unreadable(cache, SchoolPathsOf[FaultArgs].agg),
                      write_failed |-> (disk # "ok" /\ r.dir # cache),
                      asked |-> Len(RequestsOf(q.frame.events)),
                      fetched |-> resp.json,
                      outcome |-> q.frame.outcome, value |-> q.frame.value,
                      error |-> q.frame.error, changed |-> (q.dir # cache)]>>
       /\ UNCHANGED <<fs, run, keyVars>>

CallWriteJsonOnDisk ==
  \E disk \in Disks, data \in SpareValues :
    \E q \in write_json_on(disk, cache, SparePath, data) :
       /\ cache' = q.dir
       /\ calls' = <<[fn |-> "write_json",
                      unreadable |-> Unreadable(cache, SparePath),
                      write_failed |-> (disk # "ok"),
                      asked |-> 0, fetched |-> data,
                      outcome |-> q.outcome, value |-> PyNone,
                      error |-> q.error, changed |-> (q.dir # cache)]>>
       /\ UNCHANGED <<fs, run, keyVars>>

CallReadJsonOnDisk ==
  \E data \in {read_json(cache, SparePath)} :
       /\ cache' = cache
       /\ calls' = <<[fn |-> "read_json",
                      unreadable |-> Unreadable(cache, SparePath),
                      write_failed |-> FALSE,
                      asked |-> 0, fetched |-> PyNone,
                      outcome |-> IF data.k = "error" THEN "raise"
                                  ELSE "return",
                      value |-> IF data.k = "error" THEN PyNone ELSE data,
                      error |-> IF data.k = "error" THEN data.v ELSE "",
                      changed |-> FALSE]>>
       /\ UNCHANGED <<fs, run, keyVars>>

FaultNext ==
  \/ ListingCallOnDisk
  \/ SchoolsCallOnDisk
  \/ CallWriteJsonOnDisk
  \/ CallReadJsonOnDisk

SpecFaults == FaultInit /\ [][FaultNext]_vars

\* C17, as the specification words it: a cache read that fails is taken
\* for a miss and the source is queried, and a cache write that fails is
\* swallowed and the fetched result is returned.
C17_CacheFailuresAbsorbed ==
  \A i \in 1..Len(calls) :
    /\ (calls[i].unreadable /\ calls[i].fn \in {"fetch_listing_page",
                                                "fetch_schools"})
         => calls[i].asked = 1
    /\ (calls[i].unreadable /\ calls[i].fn = "read_json")
         => calls[i].outcome = "return" /\ calls[i].value = PyNone
    /\ (calls[i].write_failed /\ calls[i].fn \in {"fetch_listing_page",
                                                  "fetch_schools"})
         => calls[i].outcome = "return"
              /\ calls[i].value = calls[i].fetched
    /\ (calls[i].write_failed /\ calls[i].fn = "write_json")
         => calls[i].outcome = "return"

\* C17: cache failures leave the adapters and the cache's operations as
\* exceptions.  A call that finds its entry unreadable raises the
\* decoding error without asking the source and without touching the
\* directory; a call whose write fails raises the error of the write and
\* returns nothing, an adapter having asked the source once before.
C17_CacheFailuresPropagate ==
  \A i \in 1..Len(calls) :
    /\ (calls[i].unreadable /\ calls[i].fn # "write_json")
         => /\ calls[i].outcome = "raise"
            /\ calls[i].error = "JSONDecodeError"
            /\ calls[i].asked = 0
            /\ ~calls[i].changed
    /\ calls[i].write_failed
         => /\ calls[i].outcome = "raise"
            /\ calls[i].error = "OSError"
            /\ calls[i].value = PyNone
            /\ calls[i].fn # "write_json" => calls[i].asked = 1

\* fetch_schools raised on an aggregate that a failed write had left
\* behind, in a directory where a listing page is unreadable too.
C17_Witness ==
  /\ Len(calls) = 1
  /\ calls[1].fn = "fetch_schools"
  /\ calls[1].unreadable
  /\ calls[1].outcome = "raise"
  /\ cache[SchoolPathsOf[FaultArgs].agg] # <<>>
  /\ \E page \in ClientPages :
       Unreadable(cache, ListingFileOf[page, FaultToken])

(***************************************************************************)
(* SpecCache: read_json and write_json called in any order                 *)
(***************************************************************************)
\* The locations the calls use, one of each namespace.
CacheLocations ==
  {ListingFileOf[1, FaultToken], SchoolPathsOf[FaultArgs].agg,
   SchoolPathsOf[FaultArgs].first}

\* The values the calls write: envelopes of both adapters, an empty
\* document and null.
CacheValues ==
  {ListingEnvelope(ListingUrl(FaultToken), ListingData(1, FaultToken),
                   ListingBody(2, <<ListingB, ListingA>>)),
   PyDict(<< <<"request", PyDict(<< <<"url", PyStr(BASE_URL)>> >>)>>,
             <<"response", SchoolBody(<<SchoolA>>, NoLink)>> >>),
   PyDict(<<>>),
   PyNone}

\* The last call, and with it the value last handed to write_json for
\* each location, kept apart from the directory.
CacheCall(fn, path, value, written) ==
  [fn |-> fn, path |-> path, value |-> value, written |-> written]

WrittenSoFar == IF calls = <<>> THEN <<>> ELSE calls[1].written

CacheInit ==
  /\ cache = <<>>
  /\ calls = <<>>
  /\ fs = IdleCall
  /\ run = IdleRun
  /\ objA = PyNone /\ objB = PyNone /\ keyA = "" /\ keyB = ""

CallWriteJson ==
  \E path \in CacheLocations, data \in CacheValues :
    /\ cache' = write_json(cache, path, data)
    /\ calls' = <<CacheCall("write_json", path, data,
                    [p \in DOMAIN WrittenSoFar \cup {path} |->
                       IF p = path THEN data ELSE WrittenSoFar[p]])>>
    /\ UNCHANGED <<fs, run, keyVars>>

CallReadJson ==
  \E path \in CacheLocations :
    /\ cache' = cache
    /\ calls' = <<CacheCall("read_json", path, read_json(cache, path),
                            WrittenSoFar)>>
    /\ UNCHANGED <<fs, run, keyVars>>

CacheNext == CallWriteJson \/ CallReadJson

SpecCache == CacheInit /\ [][CacheNext]_vars

\* C18: the cache is a map from location to envelope.  read_json gives
\* the value last handed to write_json for the location, and None,
\* without raising, when nothing was written there; write_json leaves
\* the content of every other location as it was and creates or removes
\* no other entry.
C18_CacheIsMap ==
  /\ [](\A i \in 1..Len(calls) :
          calls[i].fn = "read_json"
            => calls[i].value
                 = IF calls[i].path \in DOMAIN calls[i].written
                   THEN calls[i].written[calls[i].path]
                   ELSE PyNone)
  /\ [][\A i \in 1..Len(calls') :
          calls'[i].fn = "write_json"
            => /\ DOMAIN cache' = DOMAIN cache \cup {calls'[i].path}
               /\ \A p \in DOMAIN cache \ {calls'[i].path} :
                    cache'[p] = cache[p]]_vars

\* A read of the listing location gave an envelope, while the two other
\* locations hold null and an empty document.
C18_Witness ==
  /\ Len(calls) = 1
  /\ calls[1].fn = "read_json"
  /\ calls[1].path = ListingFileOf[1, FaultToken]
  /\ calls[1].value.k = "dict"
  /\ calls[1].value.v # <<>>
  /\ DOMAIN cache = CacheLocations
  /\ cache[SchoolPathsOf[FaultArgs].agg] = JsonTokens(PyNone)
  /\ cache[SchoolPathsOf[FaultArgs].first] = JsonTokens(PyDict(<<>>))

\* The directory that holds one file, at path.
OneFile(path) == WriteFile(<<>>, path, JsonTokens(PyDict(<<>>)))

\* C19: the namespaces keep the entries apart.  For the keys that the key
\* derivation gives, two locations of path_for are the same only when
\* namespace and key are the same; the scan of the map builder finds the
\* listing page entry of a key and finds no school aggregate and no
\* school page entry, and the location of a listing page is never the
\* location of a school entry.
C19_NamespaceSeparation ==
  /\ \A ns1 \in Namespaces, ns2 \in Namespaces :
       path_for(ns1, keyA) = path_for(ns2, keyB)
         => ns1 = ns2 /\ keyA = keyB
  /\ PageFiles(OneFile(path_for("page", keyA))) # {}
  /\ PageFiles(OneFile(path_for("schools", keyA))) = {}
  /\ PageFiles(OneFile(path_for("schools_page", keyA))) = {}
  /\ \A ns \in {"schools", "schools_page"} :
       ListingCacheFile(objA) # path_for(ns, keyB)

\* The key of a listing request and the key of a school request, side by
\* side.
C19_Witness ==
  /\ objA = ListingData(1, "tokA")
  /\ objB = SchoolParams(407, -739, 18, "NY")
  /\ keyA = make_key(objA)
  /\ keyB = make_key(objB)
  /\ path_for("page", keyA) = ListingCacheFile(objA)

\* C20: an empty result ends the run in the normal way and cuts the later
\* stages short.  A run whose pagination ended without error and without
\* a listing is done, with no CSV, no map and no school call; a map run
\* that is done with listings, none of which gives a point, has its CSV
\* but no map, and made no school call.
C20_EmptyResultShortCircuits ==
  /\ (/\ run.pc \notin {"idle", "pages"}
      /\ run.error = ""
      /\ run.all_listings = <<>>)
       => /\ run.pc = "done"
          /\ run.csv = NoFile
          /\ run.map = NoFile
          /\ run.school_call = NoCall
  /\ (/\ run.pc \notin {"idle", "pages"}
      /\ run.error = ""
      /\ run.all_listings # <<>>
      /\ run.args.map
      /\ _load_points_from_cache(cache) = <<>>)
       => /\ run.pc = "done"
          /\ run.csv = write_listings_to_csv(run.all_listings)
          /\ run.csv # NoFile
          /\ run.map = NoFile
          /\ run.school_call = NoCall

\* The second run, a map build with schools, is done with one listing
\* that has no coordinates, in the directory where the first run found
\* no listing at all.
C20_Witness ==
  /\ run.pc = "done"
  /\ run.n = 2
  /\ run.args.map
  /\ ~run.args.no_schools
  /\ run.all_listings = <<ListingZ>>
  /\ run.csv # NoFile
  /\ run.map = NoFile
  /\ \E token \in Tokens \ {run.token} :
       /\ Exists(cache, ListingFileOf[1, token])
       /\ _load_points_from_cache(cache) = <<>>

(***************************************************************************)
(* SpecNormalizer: the normalizer of the map builder applied to records    *)
(***************************************************************************)
\* A field left out of a record.
Absent == [k |-> "absent", v |-> 0]

\* The mapping of the fields that are not left out.
Fields(pairs) == PyDict(SelectSeq(pairs, LAMBDA p : p[2] # Absent))

\* The prices around the bounds of the ranges.
Prices ==
  {-1, 0, 1, 99999, 100000, 100001, 199999, 200000, 200001, 299999, 300000,
   300001}

\* The values of CashFormat, each with the price it writes, 0 when it
\* writes none.
CashCases ==
  << <<PyStr("$300,000"), 300000>>, <<PyStr("$299,999"), 299999>>,
     <<PyStr("$200,000"), 200000>>, <<PyStr("$199,999"), 199999>>,
     <<PyStr("$100,000"), 100000>>, <<PyStr("$99,999"), 99999>>,
     <<PyStr("$1"), 1>>, <<PyStr("$0"), 0>>, <<PyStr(""), 0>>,
     <<PyStr("N/A"), 0>>, <<PyStr("$1,234.56"), 1234>>,
     <<PyStr(" 150000 "), 150000>>, <<PyStr("-5"), -5>>, <<PyStr("$"), 0>>,
     <<PyStr("."), 0>>, <<PyStr("12 34"), 0>>, <<PyNone, 0>>,
     <<PyInt(250000), 250000>> >>

\* The values of Centroid: left out, null, and mappings with both, one or
\* no coordinate, a coordinate being a float, an int, zero or null.
Centroids ==
  {Absent, PyNone, PyDict(<<>>)}
    \cup {Fields(<< <<"latitude", lat>>, <<"longitude", lon>> >>) :
            lat \in {Absent, PyNone, PyInt(0), PyFloat(0), PyFloat(407),
                     PyInt(41)},
            lon \in {Absent, PyNone, PyFloat(0), PyFloat(-739)}}

\* The values of CashFormat in the listings: left out, a price, no price.
ListingCash ==
  {Absent, PyStr("$100,000"), PyStr("N/A"), PyStr(""), PyNone}

\* The values of PhotoLink: left out, empty, null, no str, and links
\* whose last segment holds a token or none.
PhotoLinks ==
  {Absent, PyStr(""), PyNone, PyInt(5),
   PyStr("https://img.test/p/12345_a.jpg"), PyStr("https://img.test/p/"),
   PyStr("https://img.test/p/_a.jpg"), PyStr("12345.jpg")}

Locations == {Absent, PyStr("12 Main St"), PyNone}

NormListing(centroid, cash, photo, location) ==
  Fields(<< <<"Centroid", centroid>>, <<"CashFormat", cash>>,
            <<"PhotoLink", photo>>, <<"Location", location>> >>)

\* The values of a type field of a school: the value, whether it is
\* truthy, and the label it stands for, "" when it stands for none.
TypeCases ==
  << <<PyStr("public"), TRUE, "public">>,
     <<PyStr("Private"), TRUE, "private">>,
     <<PyStr(" CHARTER "), TRUE, "charter">>,
     <<PyStr("district"), TRUE, "public">>,
     <<PyStr("Magnet"), TRUE, "public">>,
     <<PyStr("religious"), TRUE, "private">>,
     <<PyStr("parochial"), TRUE, "private">>,
     <<PyStr("montessori"), TRUE, "">>,
     <<PyStr(""), FALSE, "">>,
     <<PyNone, FALSE, "">>,
     <<PyInt(3), TRUE, "">> >>

\* The value of a type field: case i, or left out for 0.
TypeValue(i) == IF i = 0 THEN Absent ELSE TypeCases[i][1]

\* The values of isPrivate and isCharter.
Hints == {Absent, PyBool(TRUE), PyBool(FALSE), PyInt(1)}

SchoolRecord(i1, i2, i3, is_private, is_charter) ==
  Fields(<< <<"id", PyInt(1)>>, <<"schoolType", TypeValue(i1)>>,
            <<"school_type", TypeValue(i2)>>, <<"type", TypeValue(i3)>>,
            <<"isPrivate", is_private>>, <<"isCharter", is_charter>> >>)

\* The listings of the pages that the point-loading stage reads.
PageListing(centroid, cash, photo) ==
  NormListing(centroid, cash, photo, PyStr("12 Main St"))

GoodCentroid ==
  PyDict(<< <<"latitude", PyFloat(407)>>, <<"longitude", PyFloat(-739)>> >>)

PageLists ==
  {<<PageListing(GoodCentroid, PyStr("$100,000"),
                 PyStr("https://img.test/p/12345_a.jpg"))>>,
   <<PageListing(PyDict(<<>>), PyStr("$100,000"), Absent),
     PageListing(GoodCentroid, PyStr("N/A"), PyStr("https://img.test/p/"))>>,
   <<PageListing(PyNone, PyStr("$100,000"), Absent),
     PageListing(GoodCentroid, PyStr("$100,000"), Absent)>>,
   <<PageListing(GoodCentroid, PyStr("$300,000"), Absent),
     PageListing(GoodCentroid, PyStr("$1"), Absent)>>}

\* The pages of a listing of three pages.
NormPages == {1, 2, 3}

\* The record of a call: its argument, what the inputs were made to
\* stand for, and how it ended.
NormCall(fn, arg, expect, outcome, value, error) ==
  [fn |-> fn, arg |-> arg, expect |-> expect, outcome |-> outcome,
   value |-> value, error |-> error]

NormInit ==
  /\ cache = <<>>
  /\ calls = <<>>
  /\ fs = IdleCall
  /\ run = IdleRun
  /\ objA = PyNone /\ objB = PyNone /\ keyA = "" /\ keyB = ""

\* The functions of the normalizer keep no state: each is applied once,
\* to an argument of its own.
CallPriceToCategory ==
  /\ calls = <<>>
  /\ \E price \in Prices :
       calls' = <<NormCall("_price_to_category", price, price, "return",
                           _price_to_category(price), "")>>
  /\ UNCHANGED <<cache, fs, run, keyVars>>

CallSafeIntFromMoney ==
  /\ calls = <<>>
  /\ \E i \in 1..Len(CashCases) :
       calls' = <<NormCall("_safe_int_from_money", CashCases[i][1],
                           CashCases[i][2], "return",
                           _safe_int_from_money(CashCases[i][1]), "")>>
  /\ UNCHANGED <<cache, fs, run, keyVars>>

CallListingToPoint ==
  /\ calls = <<>>
  /\ \E centroid \in Centroids, cash \in ListingCash, photo \in PhotoLinks,
        location \in Locations :
     \E r \in {ListingToPointCall(
                 NormListing(centroid, cash, photo, location))} :
       calls' = <<NormCall("_listing_to_point",
                           NormListing(centroid, cash, photo, location),
                           [centroid |-> centroid, cash |-> cash,
                            photo |-> photo, location |-> location],
                           r.outcome, r.value, r.error)>>
  /\ UNCHANGED <<cache, fs, run, keyVars>>

CallNormalizeSchoolType ==
  /\ calls = <<>>
  /\ \E i1 \in 0..Len(TypeCases), i2 \in {0, 3}, i3 \in {0, 2, 4},
        is_private \in Hints, is_charter \in Hints \ {PyInt(1)} :
       calls' = <<NormCall("_normalize_school_type",
                    SchoolRecord(i1, i2, i3, is_private, is_charter),
                    [types |-> <<i1, i2, i3>>, is_private |-> is_private,
                     is_charter |-> is_charter],
                    "return",
                    _normalize_school_type(
                      SchoolRecord(i1, i2, i3, is_private, is_charter)),
                    "")>>
  /\ UNCHANGED <<cache, fs, run, keyVars>>

\* fetch_listing_page gets a page and writes it to the directory.
CachePage ==
  /\ \E page \in NormPages, listings \in PageLists :
       /\ ~ListingCached(cache, page, FaultToken)
       /\ cache' = fetch_listing_page(cache, page, FaultToken, EnvCookies,
                     Response(200, ListingBody(2, listings))).dir
       /\ calls' = <<NormCall("fetch_listing_page", PyInt(page),
                              PyList(listings), "return", PyNone, "")>>
  /\ UNCHANGED <<fs, run, keyVars>>

CallLoadPoints ==
  /\ \E r \in {LoadPointsCall(cache)} :
       calls' = <<NormCall("_load_points_from_cache", PyNone, PyNone,
                           r.outcome, r.value, r.error)>>
  /\ UNCHANGED <<cache, fs, run, keyVars>>

NormNext ==
  \/ CallPriceToCategory
  \/ CallSafeIntFromMoney
  \/ CallListingToPoint
  \/ CallNormalizeSchoolType
  \/ CachePage
  \/ CallLoadPoints

SpecNormalizer == NormInit /\ [][NormNext]_vars

\* The calls of one function of the normalizer.
NormCalls(fn) ==
  {calls[i] : i \in {j \in 1..Len(calls) : calls[j].fn = fn}}

\* The label of a price in the table with the labels "$200k-$299k" and
\* "$100k-$199k".
TableLabel(price) ==
  IF price >= 300000 THEN "$300k+"
  ELSE IF price >= 200000 THEN "$200k-$299k"
  ELSE IF price >= 100000 THEN "$100k-$199k"
  ELSE IF price > 0 THEN "Cash < $100k"
  ELSE "Unknown"

\* C21 as stated: every price is given the label of the table whose
\* middle labels are "$200k-$299k" and "$100k-$199k"; 100000 is given
\* "$100k-$199k".
C21_PriceLabelsUnspaced ==
  \A c \in NormCalls("_price_to_category") :
    /\ c.outcome = "return"
    /\ c.value[1] = TableLabel(c.arg)

\* The label and the color of a price in the table of the ranges, the
\* middle labels written with a space on either side of the dash.
RangeOf(price) ==
  IF price >= 300000 THEN <<"$300k+", "red">>
  ELSE IF price >= 200000 THEN <<"$200k - $299k", "lightred">>
  ELSE IF price >= 100000 THEN <<"$100k - $199k", "orange">>
  ELSE IF price > 0 THEN <<"Cash < $100k", "green">>
  ELSE <<"Unknown", "gray">>

\* C21: every integer price, zero and the negative ones included, is given
\* exactly one label and its color: from 300000 "$300k+" (red), from
\* 200000 "$200k - $299k" (lightred), from 100000 "$100k - $199k"
\* (orange), above 0 "Cash < $100k" (green), otherwise "Unknown" (gray); 0,
\* 1, 99999, 100000 and 300000 are given "Unknown", "Cash < $100k",
\* "Cash < $100k", "$100k - $199k" and "$300k+".
C21_PriceBuckets ==
  \A c \in NormCalls("_price_to_category") :
    /\ c.outcome = "return"
    /\ c.value = RangeOf(c.arg)
    /\ c.arg = 0 => c.value[1] = "Unknown"
    /\ c.arg \in {1, 99999} => c.value[1] = "Cash < $100k"
    /\ c.arg = 100000 => c.value[1] = "$100k - $199k"
    /\ c.arg = 300000 => c.value[1] = "$300k+"
    /\ c.arg < 0 => c.value = <<"Unknown", "gray">>

\* The price 100000, the lowest of its range, was given its label.
C21_Witness ==
  \E c \in NormCalls("_price_to_category") :
    /\ c.arg = 100000
    /\ c.value = <<"$100k - $199k", "orange">>

\* A coordinate as the record gives it: left out when the record has no
\* Centroid, a null one, or a Centroid without the field.
CoordOf(centroid, name) ==
  IF centroid.k = "dict" THEN DictGet(centroid, name, Absent) ELSE Absent

\* A coordinate that is present, not null and not zero.
NonZero(coord) == coord \notin {Absent, PyNone, PyInt(0), PyFloat(0)}

\* Whether a call gave a MapPoint.
GavePoint(c) == c.outcome = "return" /\ c.value # PyNone

StatedCase(types) ==
  IF types[1] # 0 /\ TypeCases[types[1]][2] THEN types[1]
  ELSE IF types[2] # 0 /\ TypeCases[types[2]][2] THEN types[2]
  ELSE IF types[3] # 0 /\ TypeCases[types[3]][2] THEN types[3]
  ELSE 0

\* The label that the stated type stands for, "" when there is none or
\* it is not a recognized one.
StatedLabel(types) ==
  IF StatedCase(types) = 0 THEN "" ELSE TypeCases[StatedCase(types)][3]

\* C23: every school record is given exactly one of public, charter and
\* private: the label of its explicit type string when that is a
\* recognized one; otherwise private when isPrivate is true, otherwise
\* charter when isCharter is true, otherwise public.  A record with no
\* explicit type and isCharter true is given charter, and one with
\* neither an explicit type nor hints is given public.
C23_SchoolTypeFallbackChain ==
  \A c \in NormCalls("_normalize_school_type") :
    /\ c.outcome = "return"
    /\ c.value \in {"public", "charter", "private"}
    /\ c.value
         = IF StatedLabel(c.expect.types) # ""
           THEN StatedLabel(c.expect.types)
           ELSE IF c.expect.is_private = PyBool(TRUE) THEN "private"
           ELSE IF c.expect.is_charter = PyBool(TRUE) THEN "charter"
           ELSE "public"
    /\ (/\ c.expect.types = <<0, 0, 0>>
        /\ c.expect.is_private = Absent
        /\ c.expect.is_charter = PyBool(TRUE))
       => c.value = "charter"
    /\ (/\ c.expect.types = <<0, 0, 0>>
        /\ c.expect.is_private = Absent
        /\ c.expect.is_charter = Absent)
       => c.value = "public"

\* A record whose schoolType is no recognized type and whose isPrivate
\* and isCharter are both true was given private.
C23_Witness ==
  \E c \in NormCalls("_normalize_school_type") :
    /\ c.expect.types[1] # 0
    /\ TypeCases[c.expect.types[1]][1] = PyStr("montessori")
    /\ c.expect.is_private = PyBool(TRUE)
    /\ c.expect.is_charter = PyBool(TRUE)
    /\ c.value = "private"

\* C24: no listing record with missing coordinates, a cash string that is
\* empty or cannot be parsed, or a photo link that gives no identifier
\* makes the normalizer or the point-loading stage raise: the record is
\* skipped, or its price is taken to be 0, and the remaining records of
\* the page are processed.  The records are malformed in these ways
\* only: their Location is a str or left out.
C24_MalformedRecordsNeverAbort ==
  /\ \A c \in NormCalls("_safe_int_from_money") :
       c.outcome = "return" /\ c.value = c.expect
  /\ \A c \in NormCalls("_listing_to_point") :
       c.expect.location # PyNone => c.outcome = "return"
  /\ \A c \in NormCalls("_load_points_from_cache") :
       c.outcome = "return"

\* The point-loading stage raised on a directory whose one page holds a
\* listing with a Centroid of null, followed by a listing with
\* coordinates.
C24_Witness ==
  /\ \E c \in NormCalls("_load_points_from_cache") :
       c.outcome = "raise" /\ c.error = "AttributeError"
  /\ \E page \in ClientPages :
       /\ DOMAIN cache = {ListingFileOf[page, FaultToken]}
       /\ LoadPointsRaises(cache)

\* The photo links that give no identifier: left out, empty, null, no
\* str, and links whose last segment is empty or starts with "_".
NoToken ==
  {Absent, PyStr(""), PyNone, PyInt(5), PyStr("https://img.test/p/"),
   PyStr("https://img.test/p/_a.jpg")}

\* The address part of the link of a listing at "12 Main St", or without
\* a Location.
AddressPart(location) ==
  IF location = PyStr("12 Main St") THEN "12-main-st" ELSE ""

PagePoints(dir, page) ==
  IF ListingCached(dir, page, FaultToken)
  THEN PointsOfFile(JsonLoads(dir[ListingFileOf[page, FaultToken]]))
  ELSE <<>>

\* C26 as stated: the points handed to the renderer are those of page 1,
\* then those of page 2, then those of page 3.
C26_PointsInPageOrder ==
  \A c \in NormCalls("_load_points_from_cache") :
    c.outcome = "return"
    => c.value = PagePoints(cache, 1) \o PagePoints(cache, 2)
                   \o PagePoints(cache, 3)

\* C26: the points handed to the renderer follow the names of the page
\* files of the directory in ascending order, the order of the listings
\* inside a page preserved.  The files of pages 1, 2 and 3 of the token
\* are page_9cac....json, page_f63e....json and page_5a1d....json, so the
\* points of page 3 come first, then those of page 1, then those of
\* page 2.
C26_PointsInFileNameOrder ==
  \A c \in NormCalls("_load_points_from_cache") :
    c.outcome = "return"
    => c.value = PagePoints(cache, 3) \o PagePoints(cache, 1)
                   \o PagePoints(cache, 2)

\* Page 1 holds the listings at $300,000 and $1 and page 3 the one with
\* no price; the points are the one without a price, then the one at
\* $300,000, then the one at $1.
C26_Witness ==
  \E c \in NormCalls("_load_points_from_cache") :
    /\ c.outcome = "return"
    /\ ListingCached(cache, 1, FaultToken)
    /\ ListingCached(cache, 3, FaultToken)
    /\ Len(c.value) = 3
    /\ c.value[1].group = "Unknown"
    /\ c.value[2].group = "$300k+"
    /\ c.value[3].group = "Cash < $100k"

\* C27 as stated: when the request of follow-up page k >= 2 of a
\* fetch_schools call ends in a timeout or another exception of the
\* transport, the call stops paginating and returns the items of pages
\* 1..k-1 without raising, and writes the aggregate entry.
C27_TimeoutLikeFailedPage ==
  \A i \in 1..Len(calls) :
    \A k \in 2..Len(RequestsOf(calls[i].events)) :
      RequestsOf(calls[i].events)[k].resp = TransportError
        => /\ calls[i].outcome = "return"
           /\ DictGet(calls[i].value, "items", PyNone)
                = PyList(ItemsServed(RequestsOf(calls[i].events), k - 1))
           /\ k = Len(RequestsOf(calls[i].events))
           /\ calls[i].events[Len(calls[i].events)]
                = Wrote(SchoolPathsOf[calls[i].args].agg)

\* C27: when the request of follow-up page k >= 2 of a fetch_schools
\* call ends in a timeout or another exception of the transport, the
\* exception leaves fetch_schools: request k is the last one, the items
\* of pages 1..k-1 are not returned, and no aggregate entry is written;
\* the page entries of pages 1..k-1 are all that the call wrote.
C27_TimeoutPropagates ==
  \A i \in 1..Len(calls) :
    \A k \in 2..Len(RequestsOf(calls[i].events)) :
      RequestsOf(calls[i].events)[k].resp = TransportError
        => /\ calls[i].outcome = "raise"
           /\ calls[i].error = "RequestsError"
           /\ calls[i].value = PyNone
           /\ k = Len(RequestsOf(calls[i].events))
           /\ Len(WritesOf(calls[i].events)) = k - 1
           /\ \A j \in 1..Len(WritesOf(calls[i].events)) :
                WritesOf(calls[i].events)[j].path
                  # SchoolPathsOf[calls[i].args].agg
           /\ ~calls[i].changed
           /\ ~Exists(cache, SchoolPathsOf[calls[i].args].agg)

\* A call whose third request timed out after two pages of schools: it
\* raised, and its two page entries are in the directory without an
\* aggregate entry.
C27_Witness ==
  /\ Len(calls) = 1
  /\ Len(RequestsOf(calls[1].events)) = 3
  /\ RequestsOf(calls[1].events)[3].resp = TransportError
  /\ calls[1].outcome = "raise"
  /\ Len(WritesOf(calls[1].events)) = 2
  /\ Exists(cache, SchoolPathsOf[calls[1].args].first)
  /\ ~Exists(cache, SchoolPathsOf[calls[1].args].agg)

\* The page entry that the answer to request j of a trace is written to:
\* the entry of the request descriptor for the first request, the entry
\* of the URL for a follow-up request.
PageEntryOf(args, events, j) ==
  IF j = 1 THEN SchoolPathsOf[args].first ELSE PagePathOf[events[j].url]

\* The trace of a call writes every page answered with 200 right after
\* its request, before any further request, and writes no page entry
\* after a request that failed: what follows a failed request is the
\* write of the aggregate, or nothing.
PageWritesInStep(args, events) ==
  \A j \in 1..Len(events) :
    events[j].ev = "request"
    => IF events[j].resp # TransportError /\ events[j].resp.status = 200
       THEN /\ j < Len(events)
            /\ events[j + 1] = Wrote(PageEntryOf(args, events, j))
       ELSE \/ j = Len(events)
            \/ /\ j + 1 = Len(events)
               /\ events[j + 1] = Wrote(SchoolPathsOf[args].agg)

\* C28: fetch_schools writes the raw first page to its schools_page
\* entry, keyed by the request descriptor, before it issues any follow-up
\* request, and writes each follow-up page answered with 200 to the entry
\* keyed by its URL before it follows the next link; a follow-up page
\* that failed writes no page entry.  When a follow-up request is about
\* to be issued, the entries of all the pages fetched so far are in the
\* directory.
C28_PageWriteOrdering ==
  /\ fs.pc = "follow"
     => /\ PageWritesInStep(fs.args, fs.events)
        /\ fs.events[1].ev = "request"
        /\ fs.events[Len(fs.events)].ev = "write"
        /\ Exists(cache, SchoolPathsOf[fs.args].first)
        /\ \A j \in 2..Len(fs.events) :
             fs.events[j].ev = "request"
             => Exists(cache, PagePathOf[fs.events[j].url])
        /\ Len(WritesOf(fs.events)) = Len(RequestsOf(fs.events))
  /\ \A i \in 1..Len(calls) :
       ~calls[i].cached => PageWritesInStep(calls[i].args, calls[i].events)

\* A call whose third page failed with status 500: its trace is the
\* first request and the write of the first page, the second request and
\* the write of the second page, the third request, and the write of the
\* aggregate.
C28_Witness ==
  /\ Len(calls) = 1
  /\ Len(calls[1].events) = 6
  /\ calls[1].events[2] = Wrote(SchoolPathsOf[calls[1].args].first)
  /\ calls[1].events[3].ev = "request"
  /\ calls[1].events[4] = Wrote(PagePathOf[calls[1].events[3].url])
  /\ calls[1].events[5].ev = "request"
  /\ calls[1].events[5].resp.status = 500
  /\ calls[1].events[6] = Wrote(SchoolPathsOf[calls[1].args].agg)

\* The arguments of a fetch_schools call for the schools around the
\* first point of the run's point list.
AroundFirstPoint ==
  <<run.points[1].lat, run.points[1].lon, DefaultDistance, DefaultState>>

\* C29: a map build calls fetch_schools exactly once when the run has a
\* school client and the point list is not empty, with the latitude and
\* the longitude of the first point of the list, and never when the run
\* has no school client (--no-schools).  While the call is in progress
\* it is the one for the first point and no call has ended; a call that
\* ended is the one for the first point, and the run makes no step after
\* it; a map saved by a run with a school client comes with its call.
C29_OneSchoolCallPerMapBuild ==
  /\ [](run.pc # "idle"
        => /\ run.pc = "schools"
              => /\ run.args.map /\ ~run.args.no_schools
                 /\ run.points # <<>>
                 /\ fs.pc = "follow"
                 /\ fs.args = AroundFirstPoint
                 /\ run.school_call = NoCall
           /\ run.school_call # NoCall
              => /\ run.pc = "done"
                 /\ run.args.map /\ ~run.args.no_schools
                 /\ run.points # <<>>
                 /\ run.school_call.fn = "fetch_schools"
                 /\ run.school_call.args = AroundFirstPoint
           /\ (run.pc = "done" /\ run.map # NoFile /\ ~run.args.no_schools)
              => run.school_call # NoCall
           /\ run.args.no_schools
              => run.school_call = NoCall /\ run.pc # "schools")
  /\ [][(/\ run.pc # "idle"
         /\ run.school_call # NoCall
         /\ run'.n = run.n)
        => run' = run]_vars

\* A map build with a school client whose first point is the one of the
\* listing at 40.8, -74.0, and whose one call asked for the schools
\* around it.
C29_Witness ==
  /\ run.pc = "done"
  /\ ~run.args.no_schools
  /\ run.map # NoFile
  /\ Len(run.points) >= 2
  /\ run.points[1].lat # run.points[Len(run.points)].lat
  /\ run.school_call.fn = "fetch_schools"
  /\ run.school_call.args = <<408, -740, DefaultDistance, DefaultState>>

(***************************************************************************)
(* SpecRace: two runs in fetch_listing_page, or in fetch_schools, for the  *)
(* same key on one directory, one step for each existence check, read,    *)
(* request, open and write                                                 *)
(***************************************************************************)
RaceFunctions == {"fetch_listing_page", "fetch_schools"}

\* What the source answers to a run: two pages of different length, or a
\* failure.
RaceResponses(fn) ==
  IF fn = "fetch_listing_page"
  THEN {Response(200, ListingBody(1, <<ListingA>>)),
        Response(200, ListingBody(1, <<ListingB, ListingA>>)),
        Response(500, PyNone)}
  ELSE SinglePages

\* The call of a run that has the directory to itself and finds it
\* empty: the entries it writes, and how it ends.
RaceAlone(fn, resp) ==
  IF fn = "fetch_listing_page"
  THEN LET r == fetch_listing_page(<<>>, 1, FaultToken, EnvCookies, resp)
       IN  [dir |-> r.dir, outcome |-> r.outcome, value |-> r.value,
            error |-> r.error]
  ELSE LET s == fetch_schools(<<>>, FaultArgs, PyNone, resp)
       IN  [dir |-> s.dir, outcome |-> s.frame.outcome,
            value |-> s.frame.value, error |-> s.frame.error]

\* The entry a call looks up, and the entries it writes on a miss, in the
\* order it writes them.
RaceEntry(fn) ==
  IF fn = "fetch_listing_page" THEN ListingFileOf[1, FaultToken]
  ELSE SchoolPathsOf[FaultArgs].agg

RaceWrites(fn) ==
  IF fn = "fetch_listing_page" THEN <<ListingFileOf[1, FaultToken]>>
  ELSE <<SchoolPathsOf[FaultArgs].first, SchoolPathsOf[FaultArgs].agg>>

\* A write that adds the text at the end of the file.
WriteAppends(old, text) == old \o text

\* f.write(text) at the start of a file that open(path, "w") truncated
\* before: what another run wrote since, beyond the text, stays.
WriteOver(old, text) == text \o SubSeq(old, Len(text) + 1, Len(old))

\* The call of a run: where it is, the answer it got, the entries it has
\* still to write, and how it ended.
RaceCall(fn, pc, resp, todo, outcome, value, error) ==
  [fn |-> fn, pc |-> pc, resp |-> resp, todo |-> todo, outcome |-> outcome,
   value |-> value, error |-> error]

RaceMoves(p, call) == [calls EXCEPT ![p] = call]

RaceInit ==
  /\ cache = <<>>
  /\ \E fn \in RaceFunctions :
       calls = [p \in 1..2 |->
                  RaceCall(fn, "check", NoResponse, <<>>, "", PyNone, "")]
  /\ fs = IdleCall
  /\ run = IdleRun
  /\ objA = PyNone /\ objB = PyNone /\ keyA = "" /\ keyB = ""

\* cache_file.exists() of fetch_listing_page, path.exists() of read_json.
RaceExists ==
  /\ \E p \in 1..2 :
       /\ calls[p].pc = "check"
       /\ calls' = RaceMoves(p,
            [calls[p] EXCEPT !.pc = IF Exists(cache, RaceEntry(calls[p].fn))
                                    THEN "load" ELSE "request"])
  /\ UNCHANGED <<cache, fs, run, keyVars>>

\* json.load(f) of the entry that was found, and the return of the hit.
RaceLoad ==
  /\ \E p \in 1..2 :
       /\ calls[p].pc = "load"
       /\ \E data \in {JsonLoads(cache[RaceEntry(calls[p].fn)])} :
          IF calls[p].fn = "fetch_listing_page"
          THEN \E r \in {ListingHit(cache, data)} :
                 calls' = RaceMoves(p,
                   [calls[p] EXCEPT !.pc = "done", !.outcome = r.outcome,
                                    !.value = r.value, !.error = r.error])
          ELSE IF data.k # "error" /\ ~Truthy(data)
          THEN calls' = RaceMoves(p, [calls[p] EXCEPT !.pc = "request"])
          ELSE \E s \in {fetch_schools(cache, FaultArgs, data, NoResponse)} :
                 calls' = RaceMoves(p,
                   [calls[p] EXCEPT !.pc = "done",
                                    !.outcome = s.frame.outcome,
                                    !.value = s.frame.value,
                                    !.error = s.frame.error])
  /\ UNCHANGED <<cache, fs, run, keyVars>>

\* The request of the miss and its answer: a failure ends the call.
RaceRequest ==
  /\ \E p \in 1..2 :
       /\ calls[p].pc = "request"
       /\ \E resp \in RaceResponses(calls[p].fn) :
          \E a \in {RaceAlone(calls[p].fn, resp)} :
            calls' = RaceMoves(p,
              IF a.outcome = "raise"
              THEN [calls[p] EXCEPT !.pc = "done", !.resp = resp,
                                    !.outcome = "raise", !.error = a.error]
              ELSE [calls[p] EXCEPT !.pc = "open", !.resp = resp,
                                    !.todo = RaceWrites(calls[p].fn)])
  /\ UNCHANGED <<cache, fs, run, keyVars>>

\* open(path, "w"): the entry is created, or truncated.
RaceOpen ==
  /\ \E p \in 1..2 :
       /\ calls[p].pc = "open"
       /\ cache' = WriteFile(cache, Head(calls[p].todo), <<>>)
       /\ calls' = RaceMoves(p, [calls[p] EXCEPT !.pc = "write"])
  /\ UNCHANGED <<fs, run, keyVars>>

\* f.write(json.dumps(...)) and the close; after the last entry the call
\* returns what the source answered.
RaceWrite ==
  /\ \E p \in 1..2 :
       /\ calls[p].pc = "write"
       /\ \E a \in {RaceAlone(calls[p].fn, calls[p].resp)} :
            /\ cache' = WriteFile(cache, Head(calls[p].todo),
                          WriteOver(cache[Head(calls[p].todo)],
                                    a.dir[Head(calls[p].todo)]))
            /\ calls' = RaceMoves(p,
                 IF Len(calls[p].todo) > 1
                 THEN [calls[p] EXCEPT !.pc = "open", !.todo = Tail(@)]
                 ELSE [calls[p] EXCEPT !.pc = "done", !.todo = <<>>,
                                       !.outcome = "return",
                                       !.value = a.value])
  /\ UNCHANGED <<fs, run, keyVars>>

RaceNext ==
  \/ RaceExists
  \/ RaceLoad
  \/ RaceRequest
  \/ RaceOpen
  \/ RaceWrite

SpecRace == RaceInit /\ [][RaceNext]_vars

\* The runs whose request was answered with a page, which they write.
RaceWriters ==
  {p \in 1..2 : /\ calls[p].resp # NoResponse
                /\ RaceAlone(calls[p].fn, calls[p].resp).outcome = "return"}

\* The text that run p writes to an entry: what a run that has the
\* directory to itself stores there, given the same answer.
RaceText(p, path) == RaceAlone(calls[p].fn, calls[p].resp).dir[path]

RaceAllDone == \A p \in 1..2 : calls[p].pc = "done"

\* What a run can observe of the other: a JSONDecodeError, of a run that
\* found the entry and issued no request; any other error is the failure
\* of the run's own request.
RaceAnomalies ==
  \A p \in 1..2 :
    (calls[p].pc = "done" /\ calls[p].outcome = "raise")
    => \/ calls[p].error = "JSONDecodeError" /\ calls[p].resp = NoResponse
       \/ /\ calls[p].error \in {"RuntimeError", "RequestsError"}
          /\ calls[p].resp # NoResponse
          /\ calls[p].resp \notin
               {r \in RaceResponses(calls[p].fn) : r.status = 200}

\* C30 as stated: whatever the interleaving of the two runs, a run
\* observes no anomaly but a torn read, and once both runs are over every
\* entry holds what a sequential execution of the two runs would store:
\* the text of one of the runs that wrote it.
C30_RacesLeaveSequentialContent ==
  /\ RaceAnomalies
  /\ RaceAllDone
     => \A path \in DOMAIN cache :
          \E p \in RaceWriters : cache[path] = RaceText(p, path)

\* The shorter of two texts followed by what of the longer one lies
\* beyond it.
LaidOver(long, short) == short \o SubSeq(long, Len(short) + 1, Len(long))

\* C30: each run writes the envelope of the answer it got itself.  While
\* the runs that wrote got the same answer, an entry is empty, between
\* the open and the write of a run, or holds that one text, and holds it
\* when both runs are over; a run that hit the entry returns that answer,
\* and the one anomaly a run observes is the JSONDecodeError of a read of
\* the empty entry.  When the answers differ an entry holds the text of
\* either run, or the text of one laid over the text of the other.
C30_RacesWithOneAnswer ==
  /\ RaceAnomalies
  /\ \A path \in DOMAIN cache :
       \/ cache[path] = <<>>
       \/ \E p \in RaceWriters : cache[path] = RaceText(p, path)
       \/ \E p, q \in RaceWriters :
            /\ calls[p].resp # calls[q].resp
            /\ cache[path] = LaidOver(RaceText(p, path), RaceText(q, path))
  /\ (\A p, q \in RaceWriters : calls[p].resp = calls[q].resp)
     => /\ \A path \in DOMAIN cache :
             \/ cache[path] = <<>> /\ ~RaceAllDone
             \/ \E p \in RaceWriters : cache[path] = RaceText(p, path)
        /\ \A p \in 1..2 :
             (calls[p].pc = "done" /\ calls[p].outcome = "return")
             => \E q \in RaceWriters : calls[p].value = calls[q].resp.json

\* Both runs are over and got the same answer, if they got one: the
\* first wrote the entry, the second found it empty in between and ended
\* with the JSONDecodeError; the entry holds the text of the first.
C30_Witness ==
  /\ RaceAllDone
  /\ \E p, q \in 1..2 :
       /\ calls[p].outcome = "return"
       /\ RaceWriters = {p}
       /\ calls[q].outcome = "raise"
       /\ calls[q].error = "JSONDecodeError"
       /\ calls[q].resp = NoResponse
       /\ cache[RaceEntry(calls[p].fn)]
            = RaceText(p, RaceEntry(calls[p].fn))

\* The trace and the parameters, after a step of SpecSchools, of the call
\* that took the step: the call in progress, or the call that ended.
TraceAfter == IF fs'.pc = "follow" THEN fs'.events ELSE calls'[1].events
ArgsAfter == IF fs'.pc = "follow" THEN fs'.args ELSE calls'[1].args

\* C31: fetch_schools reads no page entry.  A call that finds no
\* aggregate entry for its parameters starts with the request of the
\* first page, and a call that finds one issues no request; a call in
\* progress requests its next link over the network; both whether or not
\* the page entries of the first page and of the link are in the
\* directory.
C31_PageEntriesNeverRead ==
  [][/\ fs.pc = "idle"
        => IF Exists(cache, SchoolPathsOf[ArgsAfter].agg)
           THEN TraceAfter = <<>>
           ELSE /\ Len(TraceAfter) >= 1
                /\ TraceAfter[1].ev = "request"
                /\ TraceAfter[1].url = BASE_URL
     /\ fs.pc = "follow"
        => /\ Len(TraceAfter) > Len(fs.events)
           /\ SubSeq(TraceAfter, 1, Len(fs.events)) = fs.events
           /\ TraceAfter[Len(fs.events) + 1].ev = "request"
           /\ TraceAfter[Len(fs.events) + 1].url = fs.next_link]_vars

\* A call without an aggregate entry has requested its first page, whose
\* entry it wrote, and is about to request a link whose page entry an
\* earlier call left in the directory.
C31_Witness ==
  /\ fs.pc = "follow"
  /\ ~Exists(cache, SchoolPathsOf[fs.args].agg)
  /\ Len(RequestsOf(fs.events)) = 1
  /\ fs.events[1].url = BASE_URL
  /\ Exists(cache, SchoolPathsOf[fs.args].first)
  /\ Exists(cache, PagePathOf[fs.next_link])
  /\ \A j \in 1..Len(WritesOf(fs.events)) :
       WritesOf(fs.events)[j].path # PagePathOf[fs.next_link]

\* Every link of the trace was followed: the request after a page with a
\* next link is the request of that link, whether or not the link was
\* requested before in the call.
LinksFollowed(reqs) ==
  \A j \in 1..(Len(reqs) - 1) :
    /\ LinkGoesOn(reqs[j])
    /\ reqs[j + 1].url = NextLink(reqs[j].resp.json)

\* The writes of a trace to the page entry of a URL.
PageWritesTo(events, url) ==
  SelectSeq(events, LAMBDA e : e.ev = "write" /\ e.path = PagePathOf[url])

\* The requests of a URL in a trace that were answered with a page.
PagesFetchedOf(events, url) ==
  SelectSeq(PagesFetched(events), LAMBDA e : e.url = url)

\* C32: fetch_schools keeps no track of the links it followed.  Every
\* next link is followed, one that was requested before in the call
\* included: the URL is requested again, its page entry is written once
\* for each time it was fetched, and the items of each fetch are in the
\* result.  Nothing but the answer ends the loop: the last request of a
\* call is one whose answer has no next link, a status other than 200,
\* or an exception of the transport, and a call in progress is about to
\* request the link of its last page, however many requests it made.
C32_NoVisitedLinkTracking ==
  /\ fs.pc = "follow"
     => /\ LinksFollowed(RequestsOf(fs.events))
        /\ LinkGoesOn(RequestsOf(fs.events)[Len(RequestsOf(fs.events))])
        /\ fs.next_link
             = NextLink(RequestsOf(fs.events)
                          [Len(RequestsOf(fs.events))].resp.json)
  /\ \A i \in 1..Len(calls) :
       (calls[i].fn = "fetch_schools" /\ ~calls[i].existed)
       => /\ LinksFollowed(RequestsOf(calls[i].events))
          /\ ~LinkGoesOn(RequestsOf(calls[i].events)
                           [Len(RequestsOf(calls[i].events))])
          /\ \A url \in NextUrls :
               Len(PageWritesTo(calls[i].events, url))
                 = Len(PagesFetchedOf(calls[i].events, url))
          /\ calls[i].outcome = "return"
             => DictGet(calls[i].value, "items", PyNone)
                  = PyList(ItemsServed(PagesFetched(calls[i].events),
                                       Len(PagesFetched(calls[i].events))))

\* A call whose second page gave its own URL as the next link: the URL
\* was requested twice and its entry written twice, and the call
\* returned the items of the first page and twice those of a second page.
C32_Witness ==
  /\ Len(calls) = 1
  /\ calls[1].fn = "fetch_schools"
  /\ calls[1].outcome = "return"
  /\ Len(RequestsOf(calls[1].events)) = 3
  /\ RequestsOf(calls[1].events)[3].url = RequestsOf(calls[1].events)[2].url
  /\ Len(PageWritesTo(calls[1].events,
                      RequestsOf(calls[1].events)[2].url)) = 2
  /\ DictGet(calls[1].value, "items", PyNone)
       = PyList(<<SchoolA, SchoolB, SchoolA, SchoolB, SchoolA>>)

(***************************************************************************)
(* SpecCredentials: fetch_listing_page and fetch_schools called in any     *)
(* order on one directory, by callers whose cookies and client             *)
(* configuration differ from call to call                                  *)
(***************************************************************************)
\* GreatSchoolsConfig as from_env builds it: csrf_token and csrf_cookie
\* are "" when the variable is unset or empty (None or "", both falsy).
GreatSchoolsConfig(user_agent, csrf_token, csrf_cookie, city) ==
  [user_agent |-> user_agent, csrf_token |-> csrf_token,
   csrf_cookie |-> csrf_cookie, city |-> city]

GreatSchoolsConfigs ==
  {GreatSchoolsConfig("Mozilla/5.0", "", "", "The Bronx"),
   GreatSchoolsConfig("curl/8.5", "csrf1", "cookie1", "Yonkers")}

\* What _random_public_ipv4 may return.
PublicIps == {"8.8.8.8", "11.22.33.44"}

\* _build_headers(): the user agent, and the CSRF token when there is one.
_build_headers(cfg) ==
  IF cfg.csrf_token # ""
  THEN PyDict(<< <<"user-agent", PyStr(cfg.user_agent)>>,
                 <<"x-csrf-token", PyStr(cfg.csrf_token)>> >>)
  ELSE PyDict(<< <<"user-agent", PyStr(cfg.user_agent)>> >>)

\* urllib.parse.quote(json.dumps(value)): the text of value, escaped.
QuotedJson(value) == [k |-> "quoted", v |-> JsonTokens(value)]

\* The search_prefs cookie of _build_cookies.
SearchPrefs(cfg, lat, lon, state, ip) ==
  PyDict(<< <<"location",
              PyDict(<< <<"ip", PyStr(ip)>>, <<"city", PyStr(cfg.city)>>,
                        <<"lat", PyFloat(lat)>>, <<"lon", PyFloat(lon)>>,
                        <<"state", PyStr(state)>>,
                        <<"locationType", PyStr("state")>> >>)>> >>)

\* _build_cookies(lat, lon, state), ip being the address drawn.
_build_cookies(cfg, lat, lon, state, ip) ==
  IF cfg.csrf_cookie # ""
  THEN PyDict(<< <<"csrf_token", PyStr(cfg.csrf_cookie)>>,
                 <<"search_prefs",
                   QuotedJson(SearchPrefs(cfg, lat, lon, state, ip))>> >>)
  ELSE PyDict(<< <<"search_prefs",
                   QuotedJson(SearchPrefs(cfg, lat, lon, state, ip))>> >>)

\* The requests of a fetch_schools call as requests.get receives them:
\* every one with the headers and the cookies built at the call's start.
SentWith(events, headers, cookies) ==
  [j \in 1..Len(SelectSeq(events, LAMBDA e : e.ev = "request")) |->
     [method |-> "GET",
      url |-> SelectSeq(events, LAMBDA e : e.ev = "request")[j].url,
      headers |-> headers, cookies |-> cookies]]

\* The school server of this specification answers with a last page or
\* with a failure.
LastPageResponses ==
  SchoolResponsesOf(SchoolItemLists, {Response(500, PyNone)}, BASE_URL,
                    MaxSchoolPages)

\* The listing page the callers of this specification ask for.
FirstPage == {1}

CredentialsInit ==
  /\ cache = <<>>
  /\ calls = <<>>
  /\ fs = IdleCall
  /\ run = IdleRun
  /\ objA = PyNone /\ objB = PyNone /\ keyA = "" /\ keyB = ""

\* A caller with cookies of its own fetches a listing page.
ListingCallWithCookies ==
  \E page \in FirstPage, token \in Tokens, cookies \in CookieJars :
    \E resp \in Answers(~ListingCached(cache, page, token), ClientResponses) :
    \E r \in {fetch_listing_page(cache, page, token, cookies, resp)} :
       /\ cache' = r.dir
       /\ calls' = LastTwo(Append(calls,
            [fn |-> "fetch_listing_page", entry |-> <<page, token>>,
             credentials |-> cookies,
             cached |-> ListingCached(cache, page, token),
             sent |-> r.requests, outcome |-> r.outcome, value |-> r.value,
             error |-> r.error]))
       /\ UNCHANGED <<fs, run, keyVars>>

\* A client with a configuration of its own fetches the schools around a
\* point.
SchoolsCallWithConfig ==
  \E args \in SchoolArgs, cfg \in GreatSchoolsConfigs, ip \in PublicIps :
    \E cached \in {read_json(cache, SchoolPathsOf[args].agg)} :
    \E resp \in Answers(SchoolsAsks(cached), LastPageResponses) :
    \E r \in {fetch_schools(cache, args, cached, resp)} :
       /\ cache' = r.dir
       /\ calls' = LastTwo(Append(calls,
            [fn |-> "fetch_schools", entry |-> args, credentials |-> cfg,
             cached |-> r.frame.cached,
             sent |-> SentWith(r.frame.events, _build_headers(cfg),
                               _build_cookies(cfg, args[1], args[2],
                                              args[4], ip)),
             outcome |-> r.frame.outcome, value |-> r.frame.value,
             error |-> r.frame.error]))
       /\ UNCHANGED <<fs, run, keyVars>>

CredentialsNext == ListingCallWithCookies \/ SchoolsCallWithConfig

SpecCredentials == CredentialsInit /\ [][CredentialsNext]_vars

\* Two consecutive calls of the same function for the same cache entry:
\* the same page and token, or the same lat, lon, distance and state.
SameEntryTwice ==
  /\ Len(calls) = 2
  /\ calls[1].fn = calls[2].fn
  /\ calls[1].entry = calls[2].entry

\* C33: of two consecutive calls of fetch_listing_page with the same page
\* and token, or of fetch_schools with the same lat, lon, distance and
\* state, whatever the cookies, headers and client configuration of each,
\* the first a miss that returned, the second finds the first's entry:
\* it sends no request and returns the value the first returned.
C33_CacheHitsIgnoreCredentials ==
  ( /\ SameEntryTwice
    /\ ~calls[1].cached
    /\ calls[1].outcome = "return" ) =>
      /\ calls[1].sent # <<>>
      /\ calls[2].cached
      /\ calls[2].sent = <<>>
      /\ calls[2].outcome = "return"
      /\ calls[2].value = calls[1].value

\* A fetch_schools call that asked the server with a CSRF token, a CSRF
\* cookie, a user agent and a city of its own, followed by a call for the
\* same point under another configuration, served from the aggregate.
C33_Witness ==
  /\ SameEntryTwice
  /\ calls[1].fn = "fetch_schools"
  /\ calls[1].credentials.user_agent # calls[2].credentials.user_agent
  /\ calls[1].credentials.csrf_token # calls[2].credentials.csrf_token
  /\ calls[1].credentials.csrf_cookie # calls[2].credentials.csrf_cookie
  /\ calls[1].credentials.city # calls[2].credentials.city
  /\ ~calls[1].cached
  /\ Len(calls[1].sent) = 1
  /\ DictGet(calls[1].sent[1].headers, "x-csrf-token", PyNone) = PyStr("csrf1")
  /\ calls[2].cached
  /\ calls[2].sent = <<>>
  /\ calls[2].value = SchoolBody(<<SchoolB, SchoolA>>, NoLink)
  /\ calls[2].value = calls[1].value

\* The points a sequence of points holds, as a set.
PointSet(points) == {points[i] : i \in 1..Len(points)}

\* The points of the listings the run's pagination loop collected.
RunPoints == PointSet(PointsOfListings(run.all_listings))

\* The points of the listing page entry of page and token in the
\* directory, none when there is no such entry.
EntryPoints(page, token) ==
  IF ListingCached(cache, page, token)
  THEN PointSet(PointsOfFile(JsonLoads(cache[ListingFileOf[page, token]])))
  ELSE {}

\* The points of every listing page entry of the directory, whatever its
\* token and its page number.
DirectoryPoints ==
  UNION {EntryPoints(page, token) :
           page \in 1..(MaxPages + 1), token \in Tokens}

\* The run is past _load_points_from_cache: main called
\* generate_map_from_cache.
MapPointsBuilt ==
  /\ run.pc \in {"schools", "done"}
  /\ run.args.map
  /\ run.all_listings # <<>>

\* The claim as stated: the points of the map are those of the pages the
\* run's pagination loop fetched, and no others.
C34_PointsConfinedToRun ==
  MapPointsBuilt => PointSet(run.points) = RunPoints

\* C34: the points generate_map_from_cache builds are those of every
\* listing page entry in the cache directory, of any token and any page
\* number: the points of the pages the run's pagination loop fetched are
\* among them, and so are the points of the entries earlier runs left.
C34_PointsOfWholeDirectory ==
  MapPointsBuilt =>
    /\ PointSet(run.points) = DirectoryPoints
    /\ RunPoints \subseteq PointSet(run.points)
    /\ (run.map # NoFile) = (run.pc = "done" /\ run.points # <<>>)

\* A second run, with a token of its own, whose only listing has no
\* coordinates, and whose map shows the two points of the page the first
\* run left under the other token.
C34_Witness ==
  /\ run.pc = "done"
  /\ run.n = 2
  /\ run.map # NoFile
  /\ Len(run.fetched) = 1
  /\ ~run.fetched[1].cached
  /\ run.all_listings = <<ListingZ>>
  /\ RunPoints = {}
  /\ EntryPoints(1, run.token) = {}
  /\ Len(run.points) = 2
  /\ \E token \in Tokens \ {run.token} :
       PointSet(run.points) = EntryPoints(1, token)

====
